---- MODULE Spec2Model ----
(***************************************************************************)
(* A model of the prompt-supercharger backend: the intent classifier      *)
(* (promptassist/intent_classifier.py), the suggestion engine              *)
(* (promptassist/suggestion_engine.py) and the HTTP boundary (app.py).     *)
(*                                                                         *)
(* A Python str is modelled as a sequence of one-character strings, so     *)
(* that substring tests, trimming, case folding and concatenation are     *)
(* computed rather than assumed.  The character U+2013 (en dash) is the    *)
(* atom "ndash".  Python's None is the atom NONE where a str may be None.  *)
(* A float confidence is an integer number of thousandths.                 *)
(***************************************************************************)
EXTENDS Integers, Sequences, FiniteSets, TLC

VARIABLES
    pc,                 \* "idle" | "pending" | "done": the request in flight
    req,                \* the request being served
    resp,               \* the response of the handler, once pc = "done"
    classifier_ok,      \* suggestion_engine's import of classify_intent succeeded
    model_loaded,       \* intent_classifier._model is not None
    label_emb_set       \* intent_classifier._label_emb is not None

vars == <<pc, req, resp, classifier_ok, model_loaded, label_emb_set>>

\* ------------------------------------------------------------------------
\* Python str operations on sequences of characters

UpperChars == <<"A","B","C","D","E","F","G","H","I","J","K","L","M","N","O","P","Q","R","S",
                "T","U","V","W","X","Y","Z">>

LowerChars == <<"a","b","c","d","e","f","g","h","i","j","k","l","m","n","o","p","q","r","s",
                "t","u","v","w","x","y","z">>

DigitChars == {"0","1","2","3","4","5","6","7","8","9"}

\* str.strip() with no argument trims these
SpaceChars == {" ", "\t", "\n"}

\* the regular-expression class \w
WordChars == {UpperChars[i] : i \in 1..26} \cup {LowerChars[i] : i \in 1..26}
             \cup DigitChars \cup {"_"}

ToLower == [c \in {UpperChars[i] : i \in 1..26} |->
               LowerChars[CHOOSE i \in 1..26 : UpperChars[i] = c]]

LowerChar(c) == IF c \in DOMAIN ToLower THEN ToLower[c] ELSE c

\* str.lower()
Lower(s) == [i \in 1..Len(s) |-> LowerChar(s[i])]

\* s[i:] starts with sub (i is 1-based)
StartsAt(s, sub, i) ==
    /\ i >= 1
    /\ i + Len(sub) - 1 <= Len(s)
    /\ \A k \in 1..Len(sub) : s[i + k - 1] = sub[k]

\* sub in s
Contains(sub, s) == \E i \in 1..(Len(s) - Len(sub) + 1) : StartsAt(s, sub, i)

\* any(k in t for k in kws)
AnyIn(kws, t) == \E n \in 1..Len(kws) : Contains(kws[n], t)

\* the smallest and the greatest element of a non-empty set of integers
Least(S) == CHOOSE i \in S : \A j \in S : i <= j

Greatest(S) == CHOOSE i \in S : \A j \in S : i >= j

\* s[lo..hi] for the indexes "keep" that survive a strip
Kept(s, keep) == IF keep = {} THEN <<>> ELSE SubSeq(s, Least(keep), Greatest(keep))

\* str.strip(chars): drop leading and trailing characters of the set
StripChars(s, chars) == Kept(s, {i \in 1..Len(s) : s[i] \notin chars})

\* str.strip()
Strip(s) == StripChars(s, SpaceChars)

RECURSIVE ReplaceFrom(_, _, _, _)
ReplaceFrom(s, old, new, i) ==
    IF i > Len(s) THEN <<>>
    ELSE IF StartsAt(s, old, i)
         THEN new \o ReplaceFrom(s, old, new, i + Len(old))
         ELSE <<s[i]>> \o ReplaceFrom(s, old, new, i + 1)

\* str.replace(old, new) for a non-empty old: every non-overlapping
\* occurrence, left to right
Replace(s, old, new) == ReplaceFrom(s, old, new, 1)

RECURSIVE Join(_, _)
\* sep.join(parts)
Join(parts, sep) ==
    IF Len(parts) = 0 THEN <<>>
    ELSE IF Len(parts) = 1 THEN parts[1]
    ELSE parts[1] \o sep \o Join(Tail(parts), sep)

\* Python's None where a str is expected
NONE == <<"None">>

\* Python truthiness of an optional str: None and "" are falsy
Truthy(s) == s # NONE /\ s # <<>>

\* x or y
Or(x, y) == IF Truthy(x) THEN x ELSE y

\* ------------------------------------------------------------------------
\* promptassist/intent_classifier.py

IMAGE == <<"i","m","a","g","e">>

EMAIL == <<"e","m","a","i","l">>

CODE == <<"c","o","d","e">>

GENERAL == <<"g","e","n","e","r","a","l">>

REWRITE == <<"r","e","w","r","i","t","e">>

SUMMARIZE == <<"s","u","m","m","a","r","i","z","e">>

TRANSLATE == <<"t","r","a","n","s","l","a","t","e">>

DATA == <<"d","a","t","a">>

LABELS == <<EMAIL, REWRITE, SUMMARIZE, TRANSLATE, CODE, DATA, IMAGE, GENERAL>>

\* The rule table, in the insertion order of the dict literal (the order in
\* which _rule_based iterates it).
ImageKeywords ==
    <<<<"i","m","a","g","e">>, <<"p","i","c","t","u","r","e">>, <<"p","i","c">>, <<"p","h","o","t","o">>, <<"p","h","o","t","o","g","r","a","p","h">>, <<"p","o","s","t","e","r">>,
      <<"b","a","n","n","e","r">>, <<"t","h","u","m","b","n","a","i","l">>, <<"w","a","l","l","p","a","p","e","r">>, <<"a","r","t">>, <<"i","l","l","u","s","t","r","a","t","i",
                                                           "o","n">>,
      <<"d","r","a","w","i","n","g">>, <<"s","k","e","t","c","h">>, <<"r","e","n","d","e","r">>, <<"3","d">>, <<"s","t","i","c","k","e","r">>, <<"e","m","o","j","i">>,
      <<"l","o","g","o">>, <<"i","c","o","n">>, <<"g","r","a","p","h","i","c">>, <<"c","o","v","e","r">>, <<"h","e","r","o"," ","i","m","a","g","e">>>>

EmailKeywords ==
    <<<<"e","m","a","i","l">>, <<"e","-","m","a","i","l">>, <<"m","a","i","l">>, <<"m","e","s","s","a","g","e">>, <<"l","e","t","t","e","r">>, <<"i","n","b","o","x">>,
      <<"s","u","b","j","e","c","t">>, <<"r","e","c","i","p","i","e","n","t">>>>

CodeKeywords ==
    <<<<"c","o","d","e">>, <<"p","y","t","h","o","n">>, <<"j","a","v","a">>, <<"j","s">>, <<"j","a","v","a","s","c","r","i","p","t">>, <<"t","y","p","e","s","c","r","i","p","t">>,
      <<"b","u","g">>, <<"f","u","n","c","t","i","o","n">>, <<"c","l","a","s","s">>, <<"a","p","i">>>>

TranslateKeywords ==
    <<<<"t","r","a","n","s","l","a","t","e">>, <<"t","r","a","n","s","l","a","t","i","o","n">>, <<"t","o"," ","e","n","g","l","i","s","h">>, <<"t","o"," ","s","p","a","n","i","s","h">>,
      <<"t","o"," ","h","i","n","d","i">>, <<"i","n"," ","f","r","e","n","c","h">>>>

SummarizeKeywords == <<<<"s","u","m","m","a","r","i","z","e">>, <<"t","l",";","d","r">>, <<"s","u","m","m","a","r","y">>, <<"b","r","i","e","f","l","y">>>>

RewriteKeywords == <<<<"r","e","w","r","i","t","e">>, <<"p","a","r","a","p","h","r","a","s","e">>, <<"r","e","p","h","r","a","s","e">>, <<"p","o","l","i","s","h">>>>

DataKeywords ==
    <<<<"c","s","v">>, <<"t","a","b","l","e">>, <<"d","a","t","a">>, <<"d","a","t","a","s","e","t">>, <<"c","h","a","r","t">>, <<"p","l","o","t">>, <<"g","r","a","p","h">>>>

RuleOrderSwapped ==
    <<[label |-> EMAIL, kws |-> EmailKeywords],
      [label |-> IMAGE, kws |-> ImageKeywords],
      [label |-> CODE, kws |-> CodeKeywords],
      [label |-> TRANSLATE, kws |-> TranslateKeywords],
      [label |-> SUMMARIZE, kws |-> SummarizeKeywords],
      [label |-> REWRITE, kws |-> RewriteKeywords],
      [label |-> DATA, kws |-> DataKeywords]>>

_KEYWORD_RULES ==
    <<[label |-> IMAGE, kws |-> ImageKeywords],
      [label |-> EMAIL, kws |-> EmailKeywords],
      [label |-> CODE, kws |-> CodeKeywords],
      [label |-> TRANSLATE, kws |-> TranslateKeywords],
      [label |-> SUMMARIZE, kws |-> SummarizeKeywords],
      [label |-> REWRITE, kws |-> RewriteKeywords],
      [label |-> DATA, kws |-> DataKeywords]>>

\* confidence of a rule match, in thousandths (0.95)
RuleConf == 950

\* confidence of the heuristic fallback of _intent_for_text (0.5)
FallbackConf == 500

\* The cosine similarities the embedding pass may report for its arg-max
\* label, in thousandths: cos_sim of unit vectors lies in [-1, 1].
SimValues == {-120, 0, 431, 1000}

\* the label of the first of the rules "hits", NONE when there is none
FirstRule(hits) == IF hits = {} THEN NONE ELSE _KEYWORD_RULES[Least(hits)].label

RuleBasedCaseSensitive(text) ==
    FirstRule({n \in 1..Len(_KEYWORD_RULES) : AnyIn(_KEYWORD_RULES[n].kws, text)})

\* _rule_based: the label of the first rule one of whose keywords is a
\* substring of the lowercased text; NONE when no rule matches.  Its
\* confidence is always RuleConf.
_rule_based(text) ==
    FirstRule({n \in 1..Len(_KEYWORD_RULES) :
                  AnyIn(_KEYWORD_RULES[n].kws, Lower(text))})

\* One result of a call: it either raises or returns (intent, conf), and
\* leaves the module globals _model and _label_emb as (model, emb).
Outcome(raised, intent, conf, model, emb) ==
    [raised |-> raised, intent |-> intent, conf |-> conf,
     model |-> model, emb |-> emb]

\* _load_model: a no-op once _model is set; otherwise the constructor may
\* raise (nothing is set), or succeed and the encoding of the labels raise
\* (_model is set, _label_emb is not), or both succeed.  Each result is
\* <<raised, _model, _label_emb>>.
_load_model(model, emb) ==
    IF model THEN {<<FALSE, model, emb>>}
    ELSE {<<TRUE, FALSE, emb>>, <<TRUE, TRUE, emb>>, <<FALSE, TRUE, TRUE>>}

\* classify_intent: the set of results the call can have, given the globals
\* before it.  The embedding pass returns the arg-max label with its
\* similarity; cos_sim against an unset _label_emb raises.
classify_intent(text, model, emb) ==
    IF ~Truthy(text) \/ Strip(text) = <<>>
    THEN {Outcome(FALSE, GENERAL, 0, model, emb)}
    ELSE IF _rule_based(text) # NONE
    THEN {Outcome(FALSE, _rule_based(text), RuleConf, model, emb)}
    ELSE UNION {
        IF l[1] \/ ~l[3]
        THEN {Outcome(TRUE, NONE, 0, l[2], l[3])}
        ELSE {Outcome(FALSE, LABELS[i], s, l[2], l[3]) :
                 i \in 1..Len(LABELS), s \in SimValues}
        : l \in _load_model(model, emb)}

\* ------------------------------------------------------------------------
\* promptassist/suggestion_engine.py: intent resolution

HeuristicImageWords ==
    <<<<"i","m","a","g","e">>, <<"p","h","o","t","o">>, <<"r","e","n","d","e","r">>, <<"i","l","l","u","s","t","r","a","t","i","o","n">>, <<"i","c","o","n">>, <<"l","o","g","o">>,
      <<"p","i","c","t","u","r","e">>>>

HeuristicEmailWords ==
    <<<<"e","m","a","i","l">>, <<"m","a","i","l">>, <<"m","e","s","s","a","g","e">>, <<"p","r","o","f","e","s","s","o","r">>, <<"m","a","n","a","g","e","r">>,
      <<"r","e","c","i","p","i","e","n","t">>>>

HeuristicCodeWords ==
    <<<<"c","o","d","e">>, <<"f","u","n","c","t","i","o","n">>, <<"s","c","r","i","p","t">>, <<"c","l","a","s","s">>, <<"a","p","i">>, <<"p","y","t","h","o","n">>,
      <<"j","a","v","a","s","c","r","i","p","t">>, <<"j","a","v","a">>, <<"c","+","+">>>>

_heuristic_intent(text) ==
    LET t == Lower(Or(text, <<>>))
    IN  IF AnyIn(HeuristicImageWords, t) THEN IMAGE
        ELSE IF AnyIn(HeuristicEmailWords, t) THEN EMAIL
        ELSE IF AnyIn(HeuristicCodeWords, t) THEN CODE
        ELSE GENERAL

CoreIntents == {IMAGE, EMAIL, CODE}

IntentForTextUncaught(text, ok, model, emb) ==
    IF ok
    THEN {IF o.raised THEN o
          ELSE Outcome(FALSE,
                       IF o.intent \notin CoreIntents
                       THEN _heuristic_intent(text) ELSE o.intent,
                       o.conf, o.model, o.emb)
          : o \in classify_intent(text, model, emb)}
    ELSE {Outcome(FALSE, _heuristic_intent(text), FallbackConf, model, emb)}

\* _intent_for_text: with the classifier imported (ok), its result, narrowed
\* by the heuristic when it is none of the three core intents; when the
\* classifier raises or was not imported, the heuristic with FallbackConf.
_intent_for_text(text, ok, model, emb) ==
    IF ok
    THEN {IF o.raised
          THEN Outcome(FALSE, _heuristic_intent(text), FallbackConf, o.model, o.emb)
          ELSE Outcome(FALSE,
                       IF o.intent \notin CoreIntents
                       THEN _heuristic_intent(text) ELSE o.intent,
                       o.conf, o.model, o.emb)
          : o \in classify_intent(text, model, emb)}
    ELSE {Outcome(FALSE, _heuristic_intent(text), FallbackConf, model, emb)}

\* ------------------------------------------------------------------------
\* app.py: the coercion of the boundary

ALLOWED_INTENTS == {IMAGE, EMAIL, CODE}

CoerceImageWords ==
    <<<<"i","m","a","g","e">>, <<"p","h","o","t","o">>, <<"r","e","n","d","e","r">>, <<"i","l","l","u","s","t","r","a","t","i","o","n">>, <<"i","c","o","n">>, <<"l","o","g","o">>,
      <<"p","i","c","t","u","r","e">>>>

CoerceEmailWords ==
    <<<<"e","m","a","i","l">>, <<"m","a","i","l">>, <<"m","e","s","s","a","g","e">>, <<"p","r","o","f","e","s","s","o","r">>, <<"m","a","n","a","g","e","r">>,
      <<"r","e","c","i","p","i","e","n","t">>>>

CoerceCodeWords ==
    <<<<"c","o","d","e">>, <<"f","u","n","c","t","i","o","n">>, <<"s","c","r","i","p","t">>, <<"c","l","a","s","s">>, <<"a","p","i">>, <<"p","y","t","h","o","n">>,
      <<"j","a","v","a","s","c","r","i","p","t">>, <<"j","a","v","a">>, <<"c","+","+">>, <<"c","#">>, <<"g","o","l","a","n","g">>, <<"t","y","p","e","s","c","r","i","p","t">>>>

CoerceDefaultsGeneral(text, intent) ==
    IF intent \in ALLOWED_INTENTS THEN intent
    ELSE _heuristic_intent(text)

_coerce_intent_to_allowed(text, intent) ==
    IF intent \in ALLOWED_INTENTS THEN intent
    ELSE LET t == Lower(Or(text, <<>>))
         IN  IF AnyIn(CoerceImageWords, t) THEN IMAGE
             ELSE IF AnyIn(CoerceEmailWords, t) THEN EMAIL
             ELSE IF AnyIn(CoerceCodeWords, t) THEN CODE
             ELSE EMAIL

\* ------------------------------------------------------------------------
\* promptassist/suggestion_engine.py: the answer map
\*
\* The "answers" argument is [kind, items, map]: kind "none" is None, kind
\* "list" a list of entries (items), kind "dict" a mapping (map).  An entry
\* is [isdict, name, value]: isdict is FALSE for a list element that is not
\* an object, and a missing key is the empty name or value.  An answer map
\* (a Python dict) is a sequence of [k, v] in insertion order, keys unique.

Q1 == <<"q","1">>

Q2 == <<"q","2">>

Q3 == <<"q","3">>

Q4 == <<"q","4">>

Q5 == <<"q","5">>

Q6 == <<"q","6">>

\* str(x)
Str(x) == IF x = NONE THEN <<"N","o","n","e">> ELSE x

HasKey(kv, k) == \E n \in 1..Len(kv) : kv[n].k = k

\* kv.get(k): the value, or NONE
Get(kv, k) ==
    IF HasKey(kv, k) THEN kv[CHOOSE n \in 1..Len(kv) : kv[n].k = k].v ELSE NONE

\* kv[k] = v: an existing key keeps its place
Put(kv, k, v) ==
    IF HasKey(kv, k)
    THEN [n \in 1..Len(kv) |-> IF kv[n].k = k THEN [k |-> k, v |-> v] ELSE kv[n]]
    ELSE Append(kv, [k |-> k, v |-> v])

\* "answers or []" as the list the loop iterates; a non-empty dict iterates
\* its keys, which are no objects
AnswerItems(answers) ==
    IF answers.kind = "list" THEN answers.items
    ELSE IF answers.kind = "dict"
    THEN [n \in 1..Len(answers.map) |-> [isdict |-> FALSE, name |-> <<>>, value |-> <<>>]]
    ELSE <<>>

RECURSIVE AnswersFirstWins(_, _)
AnswersFirstWins(items, m) ==
    IF Len(items) = 0 THEN m
    ELSE LET name == Lower(Strip(Str(Head(items).name)))
             val == Strip(Str(Head(items).value))
         IN  AnswersFirstWins(Tail(items),
                 IF name # <<>> /\ val # <<>> /\ ~HasKey(m, name)
                 THEN Put(m, name, val) ELSE m)

RECURSIVE AnswersFold(_, _)
\* the loop of _answers_to_map over well-formed entries
AnswersFold(items, m) ==
    IF Len(items) = 0 THEN m
    ELSE LET name == Lower(Strip(Str(Head(items).name)))
             val == Strip(Str(Head(items).value))
         IN  AnswersFold(Tail(items),
                 IF name # <<>> /\ val # <<>> THEN Put(m, name, val) ELSE m)

\* a.get on an element that is no object raises AttributeError
AnswersRaise(answers) ==
    \E n \in 1..Len(AnswerItems(answers)) : ~AnswerItems(answers)[n].isdict

_answers_to_map(answers) == AnswersFold(AnswerItems(answers), <<>>)

\* ------------------------------------------------------------------------
\* promptassist/suggestion_engine.py: small helpers

RECURSIVE RunOf(_, _, _)
\* the maximal run of characters of the set starting at s[i]: the index of
\* its last character (i - 1 when s[i] is not of the set)
RunOf(s, i, chars) ==
    IF i >= 1 /\ i <= Len(s) /\ s[i] \in chars THEN RunOf(s, i + 1, chars)
    ELSE i - 1

\* \d+ from s[i], greedy
DigitRunEnd(s, i) == RunOf(s, i, DigitChars)

\* \d+:\d+ from s[i], with a and b the ends of the two runs of digits
RatioRuns(s, i, a, b) ==
    /\ a >= i
    /\ a + 2 <= Len(s)
    /\ s[a + 1] = ":"
    /\ b >= a + 2

\* the end of the match of \d+:\d+ at s[i], 0 when there is none
RatioEnd(s, i) ==
    IF RatioRuns(s, i, DigitRunEnd(s, i), DigitRunEnd(s, DigitRunEnd(s, i) + 2))
    THEN DigitRunEnd(s, DigitRunEnd(s, i) + 2) ELSE 0

\* \b holds between s[i-1] and s[i]
Boundary(s, i) ==
    (i > 1 /\ i - 1 <= Len(s) /\ s[i - 1] \in WordChars)
    # (i >= 1 /\ i <= Len(s) /\ s[i] \in WordChars)

\* \b(\d+:\d+)\b matches at s[i]
RatioAt(s, i) ==
    /\ Boundary(s, i)
    /\ RatioEnd(s, i) > 0
    /\ Boundary(s, RatioEnd(s, i) + 1)

\* the match starting at the least index of "at", NONE when "at" is empty
FirstRatio(s, at) ==
    IF at = {} THEN NONE ELSE SubSeq(s, Least(at), RatioEnd(s, Least(at)))

\* re.search(r"\b(\d+:\d+)\b", s): group 1 of the leftmost match, or NONE
RatioSearch(s) == FirstRatio(s, {i \in 1..Len(s) : RatioAt(s, i)})

\* the rest of _normalize_comp, once the ratio was searched in comp
WithoutRatio(comp, ratio) ==
    <<Replace(IF ratio # NONE
              THEN StripChars(Replace(comp, ratio, <<>>), {",", ";", " ", "."})
              ELSE comp,
              <<"c","l","o","s","e"," ","u","p">>, <<"c","l","o","s","e","-","u","p">>),
      ratio>>

\* the first step of _normalize_comp, on the stripped comp
NormalizeStripped(comp) == WithoutRatio(comp, RatioSearch(comp))

NormalizeCompKeepsRatio(comp) ==
    <<Replace(Strip(Or(comp, <<>>)), <<"c","l","o","s","e"," ","u","p">>, <<"c","l","o","s","e","-","u","p">>),
      RatioSearch(Strip(Or(comp, <<>>)))>>

\* _normalize_comp: <<comp, ratio>>, ratio NONE when there is none
_normalize_comp(comp) == NormalizeStripped(Strip(Or(comp, <<>>)))

OnWords ==
    <<<<"s","t","r","e","e","t">>, <<"r","o","a","d">>, <<"h","i","g","h","w","a","y">>, <<"b","r","i","d","g","e">>, <<"b","e","a","c","h">>, <<"f","i","e","l","d">>,
      <<"r","o","o","f">>, <<"s","n","o","w">>, <<"i","c","e">>, <<"s","a","n","d">>>>

_choose_prep(bg) ==
    IF AnyIn(OnWords, Lower(Or(bg, <<>>))) THEN <<"o","n">> ELSE <<"i","n">>

Vowels == {"a", "e", "i", "o", "u"}

\* word.strip().lower()[0] raises IndexError on a word of whitespace only
ArticleRaises(word) == Truthy(word) /\ Strip(word) = <<>>

_article(word) ==
    IF ~Truthy(word) THEN <<"a">>
    ELSE IF Lower(Strip(word))[1] \in Vowels THEN <<"a","n">> ELSE <<"a">>

_comp_phrase(comp) ==
    IF ~Truthy(comp) THEN NONE
    ELSE IF Contains(<<"c","l","o","s","e">>, Lower(comp)) THEN <<"c","a","p","t","u","r","e","d"," ","i",
                                                    "n"," ","a"," ","c","l","o","s","e","-",
                                                    "u","p"," ","v","i","e","w">>
    ELSE IF Contains(<<"w","i","d","e">>, Lower(comp)) THEN <<"f","r","a","m","e","d"," ","w","i","d","e">>
    ELSE IF Contains(<<"m","a","c","r","o">>, Lower(comp)) THEN <<"a","s"," ","a"," ","m","a","c","r","o",
                                                    " ","s","h","o","t">>
    ELSE comp

\* a conditional piece of an f-string
If(c, s) == IF c THEN s ELSE <<>>

\* the list "mods" of compose_image_prompt: the pieces that are present
Present(pieces) == SelectSeq(pieces, LAMBDA p : p # NONE)

\* ------------------------------------------------------------------------
\* promptassist/suggestion_engine.py: refinement

ImageTail ==
    <<"."," ","T","h","e"," ","s","c","e","n","e"," ","s","h","o","u","l","d"," ","b","e"," ",
      "s","h","a","r","p"," ","a","n","d"," ","d","e","t","a","i","l","e","d","."," ","A","v",
      "o","i","d",":"," ","b","l","u","r","r","y",","," ","l","o","w","-","r","e","s",","," ",
      "w","a","t","e","r","m","a","r","k","s",","," ","t","e","x","t",","," ","l","o","g","o",
      "s",","," ","d","i","s","t","o","r","t","i","o","n",".">>

\* the slot kv.get(q) or "", stripped
Slot(kv, q) == Strip(Or(Get(kv, q), <<>>))

\* the lead clause of compose_image_prompt
ImageLead(subj, style) ==
    IF Truthy(style)
    THEN <<"C","r","e","a","t","e"," ">> \o _article(style) \o <<" ">> \o style \o <<" ","i","m","a","g","e"," ","o","f"," ">> \o subj
    ELSE <<"C","r","e","a","t","e"," ","a","n"," ","i","m","a","g","e"," ","o","f"," ">> \o subj

ImageModsLightFirst(bg, light, comp_txt, ratio, color) ==
    Present(<<
        IF Truthy(light) THEN <<"a","t"," ">> \o light ELSE NONE,
        IF Truthy(bg) THEN _choose_prep(bg) \o <<" ">> \o bg ELSE NONE,
        IF Truthy(comp_txt) THEN comp_txt ELSE NONE,
        IF Truthy(ratio) THEN <<"w","i","t","h"," ","a","n"," ","a","s","p","e","c","t"," ",
                                "r","a","t","i","o"," ","o","f"," ">> \o ratio ELSE NONE,
        IF Truthy(color) THEN <<"u","s","i","n","g"," ","a"," ">> \o color \o <<" ","c","o","l","o","r"," ","p","a","l",
                                                         "e","t","t","e">> ELSE NONE>>)

\* the list "mods" of compose_image_prompt
ImageMods(bg, light, comp_txt, ratio, color) ==
    Present(<<
        IF Truthy(bg) THEN _choose_prep(bg) \o <<" ">> \o bg ELSE NONE,
        IF Truthy(light) THEN <<"a","t"," ">> \o light ELSE NONE,
        IF Truthy(comp_txt) THEN comp_txt ELSE NONE,
        IF Truthy(ratio) THEN <<"w","i","t","h"," ","a","n"," ","a","s","p","e","c","t"," ",
                                "r","a","t","i","o"," ","o","f"," ">> \o ratio ELSE NONE,
        IF Truthy(color) THEN <<"u","s","i","n","g"," ","a"," ">> \o color \o <<" ","c","o","l","o","r"," ","p","a","l",
                                                         "e","t","t","e">> ELSE NONE>>)

ImageSentenceNoCommas(lead, mods) ==
    Strip(lead \o If(Len(mods) > 0, <<" ">> \o Join(mods, <<" ">>)) \o ImageTail)

\* the sentence of compose_image_prompt from its lead clause and modifiers
ImageSentence(lead, mods) ==
    Strip(lead \o If(Len(mods) > 0, <<" ">> \o Join(mods, <<","," ">>)) \o ImageTail)

\* compose_image_prompt once comp0 was normalized to nc = <<comp, ratio>>
ComposeNormalized(kv, nc) ==
    ImageSentence(ImageLead(Or(Get(kv, Q1), <<"s","u","b","j","e","c","t">>), Slot(kv, Q2)),
                  ImageMods(Slot(kv, Q3), Slot(kv, Q5), _comp_phrase(nc[1]), nc[2],
                            Slot(kv, Q6)))

\* compose_image_prompt(kv)
compose_image_prompt(kv) == ComposeNormalized(kv, _normalize_comp(Slot(kv, Q4)))

\* "; ".join(f"{k}: {v}" for k, v in kv.items() if v)
Extras(kv) ==
    LET kept == SelectSeq(kv, LAMBDA e : Truthy(e.v))
    IN  Join([n \in 1..Len(kept) |-> kept[n].k \o <<":"," ">> \o kept[n].v], <<";"," ">>)

RefineEmailAlwaysTo(kv) ==
    LET purpose == Get(kv, Q2)
        tone == Get(kv, Q3)
        cons == Get(kv, Q4)
    IN  <<"W","r","i","t","e"," ","a"," ","c","o","n","c","i","s","e",","," ","p","r","o","f",
          "e","s","s","i","o","n","a","l"," ","e","m","a","i","l"," ","t","o"," ">> \o Str(Get(kv, Q1))
        \o If(Truthy(purpose), <<" ","t","h","a","t"," ">> \o purpose) \o <<".">>
        \o If(Truthy(tone), <<" ","K","e","e","p"," ","t","h","e"," ","t","o","n","e"," ">> \o tone \o <<".">>)
        \o If(Truthy(cons), <<" ","F","o","l","l","o","w"," ","t","h","e","s","e"," ","c","o",
                              "n","s","t","r","a","i","n","t","s",":"," ">> \o cons \o <<".">>)
        \o <<" ","A","i","m"," ","f","o","r"," ","1","2","0","ndash","1","5","0"," ","w","o",
             "r","d","s",".">>

\* the email branch of refine_with_answers
RefineEmail(kv) ==
    LET recip == Get(kv, Q1)
        purpose == Get(kv, Q2)
        tone == Get(kv, Q3)
        cons == Get(kv, Q4)
        parts == Present(<<
            <<"W","r","i","t","e"," ","a"," ","c","o","n","c","i","s","e",","," ","p","r","o",
              "f","e","s","s","i","o","n","a","l"," ","e","m","a","i","l">>,
            IF Truthy(recip) THEN <<"t","o"," ">> \o recip ELSE NONE,
            IF Truthy(purpose) THEN <<"t","h","a","t"," ">> \o purpose ELSE NONE>>)
    IN  Strip(Join(parts, <<" ">>)) \o <<".">>
        \o If(Truthy(tone), <<" ","K","e","e","p"," ","t","h","e"," ","t","o","n","e"," ">> \o tone \o <<".">>)
        \o If(Truthy(cons), <<" ","F","o","l","l","o","w"," ","t","h","e","s","e"," ","c","o",
                              "n","s","t","r","a","i","n","t","s",":"," ">> \o cons \o <<".">>)
        \o <<" ","A","i","m"," ","f","o","r"," ","1","2","0","ndash","1","5","0"," ","w","o",
             "r","d","s",".">>

RefineCodeNoDefault(text, kv) ==
    LET inputs == Get(kv, Q3)
        outputs == Get(kv, Q4)
        cons == Get(kv, Q5)
        env == Get(kv, Q6)
    IN  <<"W","r","i","t","e"," ">> \o Str(Get(kv, Q1)) \o <<" ","c","o","d","e"," ","t","o"," ">> \o Str(Or(Get(kv, Q2), text))
        \o <<".">>
        \o If(Truthy(inputs), <<" ","T","h","e"," ","p","r","o","g","r","a","m"," ","s","h",
                                "o","u","l","d"," ","a","c","c","e","p","t"," ">> \o inputs \o <<".">>)
        \o If(Truthy(outputs), <<" ","I","t"," ","s","h","o","u","l","d"," ","p","r","o","d",
                                 "u","c","e"," ">> \o outputs \o <<".">>)
        \o If(Truthy(cons), <<" ","O","b","s","e","r","v","e"," ","t","h","e","s","e"," ","c",
                              "o","n","s","t","r","a","i","n","t","s",":"," ">> \o cons \o <<".">>)
        \o If(Truthy(env), <<" ","T","a","r","g","e","t"," ","e","n","v","i","r","o","n","m",
                             "e","n","t",":"," ">> \o env \o <<".">>)
        \o <<" ","R","e","t","u","r","n"," ","o","n","l","y"," ","t","h","e"," ","c","o","d",
             "e"," ","w","i","t","h"," ","c","l","e","a","r",","," ","m","i","n","i","m","a",
             "l"," ","c","o","m","m","e","n","t","s",".">>

\* the code branch of refine_with_answers
RefineCode(text, kv) ==
    LET lang == Or(Get(kv, Q1), <<"y","o","u","r"," ","p","r","e","f","e","r","r","e","d"," ",
                                  "l","a","n","g","u","a","g","e">>)
        task == Or(Get(kv, Q2), Or(text, <<"t","h","e"," ","s","p","e","c","i","f","i","e",
                                           "d"," ","t","a","s","k">>))
        inputs == Get(kv, Q3)
        outputs == Get(kv, Q4)
        cons == Get(kv, Q5)
        env == Get(kv, Q6)
    IN  <<"W","r","i","t","e"," ">> \o lang \o <<" ","c","o","d","e"," ","t","o"," ">> \o task \o <<".">>
        \o If(Truthy(inputs), <<" ","T","h","e"," ","p","r","o","g","r","a","m"," ","s","h",
                                "o","u","l","d"," ","a","c","c","e","p","t"," ">> \o inputs \o <<".">>)
        \o If(Truthy(outputs), <<" ","I","t"," ","s","h","o","u","l","d"," ","p","r","o","d",
                                 "u","c","e"," ">> \o outputs \o <<".">>)
        \o If(Truthy(cons), <<" ","O","b","s","e","r","v","e"," ","t","h","e","s","e"," ","c",
                              "o","n","s","t","r","a","i","n","t","s",":"," ">> \o cons \o <<".">>)
        \o If(Truthy(env), <<" ","T","a","r","g","e","t"," ","e","n","v","i","r","o","n","m",
                             "e","n","t",":"," ">> \o env \o <<".">>)
        \o <<" ","R","e","t","u","r","n"," ","o","n","l","y"," ","t","h","e"," ","c","o","d",
             "e"," ","w","i","t","h"," ","c","l","e","a","r",","," ","m","i","n","i","m","a",
             "l"," ","c","o","m","m","e","n","t","s",".">>

\* the general fallback of refine_with_answers
RefineGeneral(text, kv) ==
    Strip(Or(text, <<>>)) \o If(Len(kv) > 0, <<" ","(">> \o Extras(kv) \o <<")",".">>)

\* refine_with_answers(text, intent, answers), when _answers_to_map returns
refine_with_answers(text, intent, answers) ==
    LET i == Lower(Or(intent, <<>>))
        kv == _answers_to_map(answers)
    IN  IF i = IMAGE THEN compose_image_prompt(kv)
        ELSE IF i = EMAIL THEN RefineEmail(kv)
        ELSE IF i = CODE THEN RefineCode(text, kv)
        ELSE RefineGeneral(text, kv)

\* refine_with_answers raises: only through _answers_to_map
RefineRaises(text, intent, answers) == AnswersRaise(answers)

\* ------------------------------------------------------------------------
\* promptassist/suggestion_engine.py: alternates

\* len(templates), len(variants)
NumVariants == 3

VariantIndexClamped(index) ==
    IF index < 0 THEN 0 ELSE IF index >= NumVariants THEN NumVariants - 1 ELSE index

\* index % len(variants): Python's % is non-negative for a positive modulus
VariantIndex(index) == index % NumVariants

\* the three templates of _alt_image over its local variables; where is
\* the background clause and framing the composition clause
AltImageText(v, subj, style, where, light, framing, ratio, color) ==
    IF v = 0 THEN
        (IF Truthy(style)
         THEN <<"G","e","n","e","r","a","t","e"," ">> \o _article(style) \o <<" ">> \o style
              \o <<" ","i","m","a","g","e"," ","o","f"," ">> \o subj
         ELSE <<"G","e","n","e","r","a","t","e"," ","a","n"," ","i","m","a","g","e"," ","o",
                "f"," ">> \o subj)
        \o where
        \o If(Truthy(light), <<" ","a","t"," ">> \o light)
        \o framing
        \o If(Truthy(ratio), <<","," ","w","i","t","h"," ","a","n"," ","a","s","p","e","c",
                               "t"," ","r","a","t","i","o"," ","o","f"," ">> \o ratio)
        \o (IF Truthy(color) THEN <<","," ","u","s","i","n","g"," ","a"," ">> \o color \o <<" ","c","o","l","o","r"," ","p","a","l",
                                                               "e","t","t","e",".">>
            ELSE <<".">>)
        \o <<" ","E","m","p","h","a","s","i","z","e"," ","c","l","a","r","i","t","y"," ","a",
             "n","d"," ","f","i","n","e"," ","d","e","t","a","i","l",";"," ","a","v","o","i",
             "d"," ","b","l","u","r",","," ","w","a","t","e","r","m","a","r","k","s",","," ",
             "t","e","x","t",","," ","o","r"," ","a","r","t","i","f","a","c","t","s",".">>
    ELSE IF v = 1 THEN
        <<"C","r","e","a","t","e"," ","a"," ","s","c","e","n","e"," ","f","e","a","t","u","r",
          "i","n","g"," ">> \o subj
        \o where
        \o If(Truthy(light), <<" ","a","t"," ">> \o light)
        \o framing
        \o If(Truthy(ratio), <<","," ","a","s","p","e","c","t"," ","r","a","t","i","o"," ">> \o ratio)
        \o If(Truthy(style), <<","," ">> \o style \o <<" ","s","t","y","l","e">>)
        \o (IF Truthy(color) THEN <<","," ","w","i","t","h"," ">> \o color \o <<" ","t","o","n","e","s",".">> ELSE <<".">>)
        \o <<" ","A","i","m"," ","f","o","r"," ","h","i","g","h"," ","f","i","d","e","l","i",
             "t","y"," ","a","n","d"," ","s","h","a","r","p"," ","f","o","c","u","s",";"," ",
             "e","x","c","l","u","d","e"," ","l","o","g","o","s"," ","a","n","d"," ","t","e",
             "x","t",".">>
    ELSE
        (IF Truthy(style)
         THEN <<"P","r","o","d","u","c","e"," ">> \o _article(style) \o <<" ">> \o style
              \o <<" ","c","o","m","p","o","s","i","t","i","o","n"," ","o","f"," ">> \o subj
         ELSE <<"P","r","o","d","u","c","e"," ","a"," ","c","o","m","p","o","s","i","t","i",
                "o","n"," ","o","f"," ">> \o subj)
        \o where
        \o If(Truthy(light), <<" ","u","n","d","e","r"," ">> \o light)
        \o framing
        \o If(Truthy(ratio), <<","," ","A","R"," ">> \o ratio)
        \o (IF Truthy(color) THEN <<","," ","p","a","l","e","t","t","e"," ">> \o color \o <<".">> ELSE <<".">>)
        \o <<" ","K","e","e","p"," ","d","e","t","a","i","l","s"," ","c","r","i","s","p",";",
             " ","a","v","o","i","d"," ","n","o","i","s","e"," ","a","n","d"," ","d","i","s",
             "t","o","r","t","i","o","n",".">>

\* f" {_choose_prep(bg)} {bg}" if bg else ""
WhereClause(bg) == If(Truthy(bg), <<" ">> \o _choose_prep(bg) \o <<" ">> \o bg)

\* f", {comp_txt}" if comp_txt else ""
FramingClause(comp_txt) == If(Truthy(comp_txt), <<","," ">> \o comp_txt)

AltImageSubjectDropped(kv, index, nc) ==
    AltImageText(VariantIndex(index),
                 IF VariantIndex(index) = 1 THEN <<"t","h","e"," ","s","u","b","j","e","c","t">>
                 ELSE Strip(Or(Get(kv, Q1), <<"t","h","e"," ","s","u","b","j","e","c","t">>)),
                 Slot(kv, Q2), WhereClause(Slot(kv, Q3)), Slot(kv, Q5),
                 FramingClause(_comp_phrase(nc[1])), nc[2], Slot(kv, Q6))

\* _alt_image once comp0 was normalized to nc = <<comp, ratio>>
AltImageNormalized(kv, index, nc) ==
    AltImageText(VariantIndex(index), Strip(Or(Get(kv, Q1), <<"t","h","e"," ","s","u","b","j","e","c",
                                                              "t">>)),
                 Slot(kv, Q2), WhereClause(Slot(kv, Q3)), Slot(kv, Q5),
                 FramingClause(_comp_phrase(nc[1])), nc[2], Slot(kv, Q6))

_alt_image(kv, index) == AltImageNormalized(kv, index, _normalize_comp(Slot(kv, Q4)))

_alt_email(kv, index, base_text) ==
    LET recip == Get(kv, Q1)
        purpose == Get(kv, Q2)
        tone == Get(kv, Q3)
        cons == Get(kv, Q4)
        who == If(Truthy(recip), <<" ","t","o"," ">> \o recip)
        why == If(Truthy(purpose), <<" ","t","h","a","t"," ">> \o purpose)
        tone_s == If(Truthy(tone), <<" ","K","e","e","p"," ","t","h","e"," ","t","o","n","e",
                                     " ">> \o tone \o <<".">>)
        cons_s == If(Truthy(cons), <<" ","F","o","l","l","o","w"," ","t","h","e","s","e"," ",
                                     "c","o","n","s","t","r","a","i","n","t","s",":"," ">> \o cons \o <<".">>)
        v == VariantIndex(index)
    IN  (IF v = 0 THEN <<"D","r","a","f","t"," ","a"," ","p","r","o","f","e","s","s","i","o",
                         "n","a","l"," ","e","m","a","i","l">> \o who \o why
                       \o <<"."," ","K","e","e","p"," ","i","t"," ","c","l","e","a","r"," ",
                            "a","n","d"," ","c","o","n","c","i","s","e",".">>
         ELSE IF v = 1 THEN <<"W","r","i","t","e"," ","a"," ","c","o","n","c","i","s","e"," ",
                              "e","m","a","i","l">> \o who \o why
                       \o <<"."," ","M","a","i","n","t","a","i","n"," ","a"," ","p","r","o",
                            "f","e","s","s","i","o","n","a","l"," ","t","o","n","e",".">>
         ELSE <<"C","o","m","p","o","s","e"," ","a"," ","w","e","l","l","-","s","t","r","u",
                "c","t","u","r","e","d"," ","e","m","a","i","l">> \o who \o why
                       \o <<"."," ","A","i","m"," ","f","o","r"," ","~","1","2","0","ndash",
                            "1","5","0"," ","w","o","r","d","s",".">>)
        \o tone_s \o cons_s

_alt_code(kv, index, base_text) ==
    LET lang == Or(Get(kv, Q1), <<"a"," ","s","u","i","t","a","b","l","e"," ","l","a","n","g",
                                  "u","a","g","e">>)
        task == Or(Get(kv, Q2), Or(base_text, <<"t","h","e"," ","s","p","e","c","i","f","i",
                                                "e","d"," ","t","a","s","k">>))
        inputs == Get(kv, Q3)
        outputs == Get(kv, Q4)
        cons == Get(kv, Q5)
        env == Get(kv, Q6)
        v == VariantIndex(index)
        Opt(x, pre) == IF Truthy(x) THEN pre \o x \o <<".">> ELSE NONE
    IN  IF v = 0 THEN Join(Present(<<
                <<"I","m","p","l","e","m","e","n","t"," ">> \o lang \o <<" ","c","o","d","e"," ","t","o"," ">> \o task \o <<".">>,
                Opt(inputs, <<"A","c","c","e","p","t"," ">>), Opt(outputs, <<"R","e","t","u","r","n"," ">>),
                Opt(cons, <<"C","o","n","s","t","r","a","i","n","t","s",":"," ">>), Opt(env, <<"E","n","v","i","r","o","n","m","e","n",
                                                         "t",":"," ">>),
                <<"O","u","t","p","u","t"," ","o","n","l","y"," ","t","h","e"," ","c","o","d",
                  "e"," ","w","i","t","h"," ","m","i","n","i","m","a","l"," ","c","o","m","m",
                  "e","n","t","s",".">>>>), <<" ">>)
        ELSE IF v = 1 THEN Join(Present(<<
                <<"W","r","i","t","e"," ","a"," ">> \o lang \o <<" ","f","u","n","c","t","i","o","n"," ","t","h","a",
                                          "t"," ">> \o task \o <<".">>,
                Opt(inputs, <<"I","n","p","u","t","s",":"," ">>), Opt(outputs, <<"O","u","t","p","u","t","s",":"," ">>),
                Opt(cons, <<"O","b","s","e","r","v","e",":"," ">>), Opt(env, <<"T","a","r","g","e","t",":"," ">>),
                <<"P","r","o","v","i","d","e"," ","a"," ","c","l","e","a","n",","," ","s","e",
                  "l","f","-","c","o","n","t","a","i","n","e","d"," ","s","o","l","u","t","i",
                  "o","n",".">>>>), <<" ">>)
        ELSE Join(Present(<<
                <<"C","r","e","a","t","e"," ","a"," ">> \o lang \o <<" ","r","o","u","t","i","n","e"," ","t","o"," ">> \o task \o <<".">>,
                Opt(inputs, <<"I","n","p","u","t"," ","s","p","e","c",":"," ">>), Opt(outputs, <<"O","u","t","p","u","t"," ","s","p","e",
                                                              "c",":"," ">>),
                Opt(cons, <<"N","o","t","e","s",":"," ">>), Opt(env, <<"R","u","n","t","i","m","e",":"," ">>),
                <<"R","e","t","u","r","n"," ","c","o","d","e"," ","o","n","l","y",".">>>>), <<" ">>)

_alt_general(kv, index, base_text) ==
    LET extras == Extras(kv)
        v == VariantIndex(index)
        tail == IF Truthy(extras) THEN <<" ","(">> \o extras \o <<")",".">> ELSE <<".">>
    IN  (IF v = 0 THEN <<"P","r","o","v","i","d","e"," ","a"," ","c","l","e","a","r",","," ",
                         "a","c","t","i","o","n","a","b","l","e"," ","r","e","s","p","o","n",
                         "s","e",":"," ">>
         ELSE IF v = 1 THEN <<"R","e","s","p","o","n","d"," ","c","o","n","c","i","s","e","l",
                              "y"," ","t","o",":"," ">>
         ELSE <<"G","i","v","e"," ","a"," ","s","t","e","p","-","b","y","-","s","t","e","p",
                " ","a","n","s","w","e","r"," ","f","o","r",":"," ">>)
        \o Str(base_text) \o tail

\* ------------------------------------------------------------------------
\* promptassist/suggestion_engine.py: slots recovered from a prompt
\* (the regular expressions of _extract_kv_from_prompt, all with re.I)

RECURSIVE RunEnd(_, _)
\* [^,\.]+ from s[p], greedy: the index of its last character (p - 1 when
\* there is none)
RunEnd(s, p) ==
    IF p >= 1 /\ p <= Len(s) /\ s[p] \notin {",", "."} THEN RunEnd(s, p + 1)
    ELSE p - 1

\* \s+ from s[p], greedy: the index of its last character
SpaceRunEnd(s, p) == RunOf(s, p, SpaceChars)

\* the group of r"\bof (?:a |an )?([^,\.]+)" for a match whose "of " ends
\* before s[p]: after the optional article when something follows it
OfGroupStart(s, p) ==
    IF StartsAt(Lower(s), <<"a"," ">>, p) /\ RunEnd(s, p + 2) >= p + 2 THEN p + 2
    ELSE IF StartsAt(Lower(s), <<"a","n"," ">>, p) /\ RunEnd(s, p + 3) >= p + 3 THEN p + 3
    ELSE p

\* the run of [^,\.] from s[g]
GroupFrom(s, g) == SubSeq(s, g, RunEnd(s, g))

\* the group of the leftmost match of r"\bof (?:a |an )?([^,\.]+)" among the
\* starts "at"
FirstOf(s, at) ==
    IF at = {} THEN NONE ELSE GroupFrom(s, OfGroupStart(s, Least(at) + 3))

\* r"\bof (?:a |an )?([^,\.]+)": group 1, or NONE
SearchOf(s) ==
    FirstOf(s, {i \in 1..Len(s) :
                   /\ Boundary(s, i)
                   /\ StartsAt(Lower(s), <<"o","f"," ">>, i)
                   /\ RunEnd(s, i + 3) >= i + 3})

StyleChars == {LowerChars[i] : i \in 1..26} \cup {"-", " "}

\* the length of the verb the prompt starts with, 0 when it starts with none
VerbLen(ls) ==
    IF StartsAt(ls, <<"c","r","e","a","t","e">>, 1) THEN 6
    ELSE IF StartsAt(ls, <<"g","e","n","e","r","a","t","e">>, 1) THEN 8
    ELSE IF StartsAt(ls, <<"p","r","o","d","u","c","e">>, 1) THEN 7
    ELSE 0

\* (?:a|an)\s from s[p]: the index of the last letter of the article, 0 when
\* there is none
ArticleEnd(s, p) ==
    IF StartsAt(Lower(s), <<"a","n">>, p) /\ p + 2 <= Len(s) /\ s[p + 2] \in SpaceChars
    THEN p + 1
    ELSE IF StartsAt(Lower(s), <<"a">>, p) /\ p + 1 <= Len(s) /\ s[p + 1] \in SpaceChars
    THEN p
    ELSE 0

\* ([a-z\- ]+?)\s+image\b matches s[e2+1..ge] as the group
StyleGroupOk(s, e2, ge) ==
    /\ ge > e2
    /\ \A j \in (e2 + 1)..ge : LowerChar(s[j]) \in StyleChars
    /\ SpaceRunEnd(s, ge + 1) >= ge + 1
    /\ StartsAt(Lower(s), <<"i","m","a","g","e">>, SpaceRunEnd(s, ge + 1) + 1)
    /\ Boundary(s, SpaceRunEnd(s, ge + 1) + 6)

\* among the pairs <<e2, ge>> that match, the group of the one the engine
\* finds: \s+ greedy (the greatest e2), the group lazy (then the least ge)
StyleChoice(s, ok) ==
    IF ok = {} THEN NONE
    ELSE SubSeq(s, Greatest({p[1] : p \in ok}) + 1,
                Least({p[2] : p \in {q \in ok : q[1] = Greatest({r[1] : r \in ok})}}))

\* the match of \s+([a-z\- ]+?)\s+image\b after an article that ends at s[a]
StyleAfterArticle(s, a) ==
    IF a = 0 THEN NONE
    ELSE StyleChoice(s, {p \in ((a + 1)..SpaceRunEnd(s, a + 1)) \X ((a + 2)..Len(s)) :
                            StyleGroupOk(s, p[1], p[2])})

\* the match of \s+(?:a|an)... after a verb of length v
StyleAfterVerb(s, v) ==
    IF v = 0 \/ SpaceRunEnd(s, v + 1) < v + 1 THEN NONE
    ELSE StyleAfterArticle(s, ArticleEnd(s, SpaceRunEnd(s, v + 1) + 1))

\* r"^(?:create|generate|produce)\s+(?:a|an)\s+([a-z\- ]+?)\s+image\b" on the
\* stripped prompt: group 1, or NONE
SearchStyleStripped(s) == StyleAfterVerb(s, VerbLen(Lower(s)))

SearchStyle(prompt) == SearchStyleStripped(Strip(prompt))

\* the group of the leftmost match of r"\b <word> ([^,\.]+)" among the
\* starts "at"
FirstAfterWord(s, at) ==
    IF at = {} THEN NONE ELSE GroupFrom(s, Least(at) + 4)

\* r"\b <word> ([^,\.]+)" for a set of two-letter words: the group of the
\* leftmost match, or NONE
SearchAfterWord(s, words) ==
    FirstAfterWord(s, {i \in 1..Len(s) :
                   /\ Boundary(s, i)
                   /\ \E w \in words : StartsAt(Lower(s), <<" ">> \o w \o <<" ">>, i)
                   /\ RunEnd(s, i + 4) >= i + 4})

\* the start of the group of r"color palette:\s*([^,\.]+)" for a match whose
\* key ends before s[p], 0 when there is none: when nothing follows the
\* spaces, \s* gives its last space back to the group
PaletteStart(s, p) ==
    IF RunEnd(s, SpaceRunEnd(s, p) + 1) >= SpaceRunEnd(s, p) + 1
    THEN SpaceRunEnd(s, p) + 1
    ELSE IF SpaceRunEnd(s, p) >= p THEN SpaceRunEnd(s, p) ELSE 0

\* the group of the leftmost match of r"color palette:\s*([^,\.]+)" among the
\* starts "at"
FirstPalette(s, at) ==
    IF at = {} THEN NONE ELSE GroupFrom(s, PaletteStart(s, Least(at) + 14))

\* r"color palette:\s*([^,\.]+)": group 1, or NONE
SearchPalette(s) ==
    FirstPalette(s, {i \in 1..Len(s) :
                   StartsAt(Lower(s), <<"c","o","l","o","r"," ","p","a","l","e","t","t","e",
                                        ":">>, i) /\ PaletteStart(s, i + 14) > 0})

\* \s*(\d+:\d+) from s[p]: the start of the group, 0 when there is none
AspectDigits(s, p) ==
    IF RatioEnd(s, SpaceRunEnd(s, p) + 1) > 0 THEN SpaceRunEnd(s, p) + 1 ELSE 0

\* (?:aspect ratio|ar)\s*(\d+:\d+) at s[i]: the start of the group, or 0
AspectGroup(s, i) ==
    IF StartsAt(Lower(s), <<"a","s","p","e","c","t"," ","r","a","t","i","o">>, i) THEN AspectDigits(s, i + 12)
    ELSE IF StartsAt(Lower(s), <<"a","r">>, i) THEN AspectDigits(s, i + 2)
    ELSE 0

\* the group \d+:\d+ of the leftmost match among the starts "at"
FirstAspect(s, at) ==
    IF at = {} THEN NONE
    ELSE SubSeq(s, AspectGroup(s, Least(at)), RatioEnd(s, AspectGroup(s, Least(at))))

\* r"\b(?:aspect ratio|ar)\s*(\d+:\d+)": group 1, or NONE
SearchAspect(s) ==
    FirstAspect(s, {i \in 1..Len(s) : Boundary(s, i) /\ AspectGroup(s, i) > 0})

RECURSIVE PutAll(_, _)
\* the assignments kv[k] = m.group(..).strip() of the searches that matched
PutAll(kv, found) ==
    IF Len(found) = 0 THEN kv
    ELSE PutAll(IF Head(found)[2] = NONE THEN kv
                ELSE Put(kv, Head(found)[1], Strip(Head(found)[2])),
                Tail(found))

_extract_kv_from_prompt(prompt) ==
    IF ~Truthy(prompt) THEN <<>>
    ELSE PutAll(<<>>, <<
            <<Q1, SearchOf(prompt)>>,
            <<Q2, SearchStyle(prompt)>>,
            <<Q3, SearchAfterWord(prompt, {<<"i","n">>, <<"o","n">>})>>,
            <<Q5, SearchAfterWord(prompt, {<<"a","t">>})>>,
            <<Q6, SearchPalette(prompt)>>,
            <<Q4, SearchAspect(prompt)>> >>)

\* alternate_prompt(prompt, intent, answers, index), when _answers_to_map
\* returns
alternate_prompt(prompt, intent, answers, index) ==
    LET i == Lower(Or(intent, GENERAL))
        kv0 == IF answers.kind = "list" THEN _answers_to_map(answers)
               ELSE IF answers.kind = "dict" THEN answers.map
               ELSE <<>>
    IN  IF i = IMAGE
        THEN _alt_image(IF Len(kv0) = 0 THEN _extract_kv_from_prompt(prompt)
                        ELSE kv0, index)
        ELSE IF i = EMAIL THEN _alt_email(kv0, index, prompt)
        ELSE IF i = CODE THEN _alt_code(kv0, index, prompt)
        ELSE _alt_general(kv0, index, prompt)

\* alternate_prompt raises: only through _answers_to_map, on a list
AlternateRaises(prompt, intent, answers, index) ==
    answers.kind = "list" /\ AnswersRaise(answers)

\* ------------------------------------------------------------------------
\* promptassist/suggestion_engine.py: the first pass

\* the keys of CLARIFY (and of VARIATIONS)
CLARIFY_KEYS == {EMAIL, IMAGE, CODE, GENERAL}

ImprovedPromptDropsText(intent, text) ==
    <<"R","o","l","e",":"," ","h","e","l","p","f","u","l"," ","a","s","s","i","s","t","a","n",
      "t",".","\n","G","o","a","l",":"," ","F","u","l","f","i","l","l"," ","t","h","e"," ",
      "r","e","q","u","e","s","t"," ","c","l","e","a","r","l","y"," ","a","n","d"," ","c","o",
      "n","c","i","s","e","l","y",".","\n">>

_improved_prompt(intent, text) ==
    IF intent = IMAGE THEN
        <<"R","o","l","e",":"," ","i","m","a","g","e"," ","p","r","o","m","p","t"," ","e","n",
          "g","i","n","e","e","r",".","\n","G","o","a","l",":"," ","C","r","e","a","t","e",
          " ","a"," ","h","i","g","h","-","q","u","a","l","i","t","y"," ","p","r","o","m","p",
          "t"," ","f","o","r"," ","a","n"," ","i","m","a","g","e"," ","g","e","n","e","r","a",
          "t","o","r",".","\n","I","n","p","u","t","s",":"," ">>
        \o Str(text) \o
        <<".","\n","C","o","n","s","t","r","a","i","n","t","s",":"," ","i","n","c","l","u",
          "d","e"," ","s","u","b","j","e","c","t",","," ","s","t","y","l","e",","," ","c","o",
          "m","p","o","s","i","t","i","o","n",","," ","b","a","c","k","g","r","o","u","n","d",
          ","," ","l","i","g","h","t","i","n","g",","," ","c","o","l","o","r"," ","p","a","l",
          "e","t","t","e",";"," ","a","d","d"," ","a","s","p","e","c","t"," ","r","a","t","i",
          "o"," ","i","f"," ","p","r","o","v","i","d","e","d","."," ","O","u","t","p","u","t",
          ":"," ","a"," ","s","i","n","g","l","e"," ","c","o","n","c","i","s","e",","," ","n",
          "a","t","u","r","a","l"," ","s","e","n","t","e","n","c","e"," ","s","u","i","t","a",
          "b","l","e"," ","f","o","r"," ","a","n"," ","i","m","a","g","e"," ","m","o","d","e",
          "l",".","\n">>
    ELSE IF intent = EMAIL THEN
        <<"R","o","l","e",":"," ","e","m","a","i","l"," ","a","s","s","i","s","t","a","n","t",
          ".","\n","G","o","a","l",":"," ","D","r","a","f","t"," ","a"," ","p","r","o","f",
          "e","s","s","i","o","n","a","l"," ","e","m","a","i","l"," ","t","h","a","t"," ","s",
          "a","t","i","s","f","i","e","s"," ","t","h","e"," ","r","e","q","u","e","s","t",".",
          "\n","I","n","p","u","t","s",":"," ">>
        \o Str(text) \o
        <<".","\n","C","o","n","s","t","r","a","i","n","t","s",":"," ","1","2","0","ndash",
          "1","5","0"," ","w","o","r","d","s",","," ","p","r","o","f","e","s","s","i","o","n",
          "a","l"," ","t","o","n","e",","," ","c","l","e","a","r"," ","s","t","r","u","c","t",
          "u","r","e",".","\n","O","u","t","p","u","t",":"," ","p","l","a","i","n"," ","t",
          "e","x","t"," ","o","n","l","y",".","\n">>
    ELSE IF intent = CODE THEN
        <<"R","o","l","e",":"," ","c","o","d","i","n","g"," ","a","s","s","i","s","t","a","n",
          "t",".","\n","G","o","a","l",":"," ","W","r","i","t","e"," ","c","o","r","r","e",
          "c","t",","," ","r","e","a","d","a","b","l","e"," ","c","o","d","e"," ","t","o"," ",
          "s","a","t","i","s","f","y"," ","t","h","e"," ","r","e","q","u","e","s","t",".",
          "\n","I","n","p","u","t","s",":"," ">>
        \o Str(text) \o
        <<".","\n","C","o","n","s","t","r","a","i","n","t","s",":"," ","i","n","c","l","u",
          "d","e"," ","f","u","n","c","t","i","o","n"," ","s","i","g","n","a","t","u","r","e",
          ","," ","i","n","p","u","t","s",","," ","o","u","t","p","u","t","s",","," ","a","n",
          "d"," ","m","i","n","i","m","a","l"," ","e","x","a","m","p","l","e","s"," ","i","f",
          " ","h","e","l","p","f","u","l",".","\n","O","u","t","p","u","t",":"," ","c","o",
          "d","e"," ","b","l","o","c","k"," ","o","n","l","y",".","\n">>
    ELSE
        <<"R","o","l","e",":"," ","h","e","l","p","f","u","l"," ","a","s","s","i","s","t","a",
          "n","t",".","\n","G","o","a","l",":"," ","F","u","l","f","i","l","l"," ","t","h",
          "e"," ","r","e","q","u","e","s","t"," ","c","l","e","a","r","l","y"," ","a","n","d",
          " ","c","o","n","c","i","s","e","l","y",".","\n","I","n","p","u","t","s",":"," ">>
        \o Str(text) \o
        <<".","\n","C","o","n","s","t","r","a","i","n","t","s",":"," ","b","e"," ","s","p",
          "e","c","i","f","i","c",","," ","a","v","o","i","d"," ","d","i","s","c","l","a","i",
          "m","e","r","s",","," ","a","s","k"," ","2","ndash","3"," ","b","r","i","e","f"," ",
          "c","l","a","r","i","f","y","i","n","g"," ","q","u","e","s","t","i","o","n","s"," ",
          "i","f"," ","d","e","t","a","i","l","s"," ","a","r","e"," ","m","i","s","s","i","n",
          "g",".","\n","O","u","t","p","u","t",":"," ","p","l","a","i","n"," ","t","e","x",
          "t"," ","o","n","l","y",".","\n">>

\* suggest(text): the set of results.  A result is [raised, intent, conf,
\* improved, inputs, model, emb]; the clarifying questions, the variations
\* and the other slots are constant tables looked up by the intent.
\* round(float(conf or 0.5), 3): a confidence of 0 is reported as 0.5.
suggest(text, ok, model, emb) ==
    {IF o.raised
     THEN [raised |-> TRUE, intent |-> NONE, conf |-> 0, improved |-> <<>>,
           inputs |-> <<>>, model |-> o.model, emb |-> o.emb]
     ELSE LET intent == IF o.intent \notin CLARIFY_KEYS THEN GENERAL ELSE o.intent
          IN  [raised |-> FALSE, intent |-> intent,
               conf |-> IF o.conf = 0 THEN FallbackConf ELSE o.conf,
               improved |-> _improved_prompt(intent, text),
               inputs |-> text, model |-> o.model, emb |-> o.emb]
     : o \in _intent_for_text(text, ok, model, emb)}

\* ------------------------------------------------------------------------
\* The requests, the responses and the inputs the model draws

NoAnswers == [kind |-> "none", items |-> <<>>, map |-> <<>>]

ListOf(items) == [kind |-> "list", items |-> items, map |-> <<>>]

DictOf(map) == [kind |-> "dict", items |-> <<>>, map |-> map]

Entry(name, value) == [isdict |-> TRUE, name |-> name, value |-> value]

\* a list element that is not an object (a JSON string or number)
BadEntry == [isdict |-> FALSE, name |-> <<>>, value |-> <<>>]

Request(op, text, intent, answers, index) ==
    [op |-> op, text |-> text, intent |-> intent, answers |-> answers,
     index |-> index]

NoRequest == Request("none", <<>>, <<>>, NoAnswers, 0)

\* A response: status is the HTTP status of an endpoint ("200", "400",
\* "500"), or "returned" / "raised" for a call of a function; composed tells
\* whether suggest, refine_with_answers or alternate_prompt was invoked.
\* out is the prompt of the response (improved_prompt, refined_prompt or
\* alternate_prompt), inputs its slots.inputs, kv a returned answer map.
Response(status, error, intent, conf, out, inputs, kv, composed) ==
    [status |-> status, error |-> error, intent |-> intent, conf |-> conf,
     out |-> out, inputs |-> inputs, kv |-> kv, composed |-> composed]

NoResponse == Response("none", "", <<>>, 0, <<>>, <<>>, <<>>, FALSE)

\* ------------------------------------------------------------------------
\* app.py: the endpoints.  A payload field that is missing is NONE.

\* payload.get("answers") or []
AnswersOrEmpty(answers) ==
    IF answers.kind = "list" /\ Len(answers.items) > 0 THEN answers
    ELSE IF answers.kind = "dict" /\ Len(answers.map) > 0 THEN answers
    ELSE ListOf(<<>>)

ServerError == Response("500", "exception", <<>>, 0, <<>>, <<>>, <<>>, TRUE)

MissingText == Response("400", "Missing 'text'", <<>>, 0, <<>>, <<>>, <<>>, FALSE)

SuggestOk(d) == Response("200", "", d.intent, d.conf, d.improved, d.inputs, <<>>, TRUE)

ApiSuggestNoHint(payload, ok, model, emb) ==
    LET text == Strip(Or(payload.text, <<>>))
    IN  IF ~Truthy(text) THEN {<<MissingText, model, emb>>}
        ELSE UNION {
            IF d.raised THEN {<<ServerError, d.model, d.emb>>}
            ELSE IF _coerce_intent_to_allowed(text, d.intent) # d.intent
                 THEN {IF h.raised THEN <<ServerError, h.model, h.emb>>
                       ELSE <<SuggestOk(h), h.model, h.emb>>
                       : h \in suggest(text, ok, d.model, d.emb)}
                 ELSE {<<SuggestOk(d), d.model, d.emb>>}
            : d \in suggest(text, ok, model, emb)}

\* api_suggest: the set of <<response, _model, _label_emb>>
api_suggest(payload, ok, model, emb) ==
    LET text == Strip(Or(payload.text, <<>>))
    IN  IF ~Truthy(text) THEN {<<MissingText, model, emb>>}
        ELSE UNION {
            IF d.raised THEN {<<ServerError, d.model, d.emb>>}
            ELSE LET coerced == _coerce_intent_to_allowed(text, d.intent)
                 IN  IF coerced # d.intent
                     THEN {IF h.raised THEN <<ServerError, h.model, h.emb>>
                           ELSE <<SuggestOk(h), h.model, h.emb>>
                           : h \in suggest(coerced \o <<":"," ">> \o text, ok, d.model, d.emb)}
                     ELSE {<<SuggestOk(d), d.model, d.emb>>}
            : d \in suggest(text, ok, model, emb)}

ApiRefineNoValidation(payload) ==
    LET text == Strip(Or(payload.text, <<>>))
        intent == _coerce_intent_to_allowed(text, Lower(Strip(Or(payload.intent, <<>>))))
        answers == AnswersOrEmpty(payload.answers)
    IN  IF RefineRaises(text, intent, answers) THEN ServerError
        ELSE Response("200", "", intent, 0,
                      refine_with_answers(text, intent, answers), <<>>, <<>>, TRUE)

\* api_refine
api_refine(payload) ==
    LET text == Strip(Or(payload.text, <<>>))
        intent0 == Lower(Strip(Or(payload.intent, <<>>)))
        answers == AnswersOrEmpty(payload.answers)
    IN  IF ~Truthy(text) THEN MissingText
        ELSE LET intent == _coerce_intent_to_allowed(text, intent0)
             IN  IF RefineRaises(text, intent, answers) THEN ServerError
                 ELSE Response("200", "", intent, 0,
                               refine_with_answers(text, intent, answers),
                               <<>>, <<>>, TRUE)

\* the response of api_alternate for the alternate alt
AlternateResponse(intent, alt) ==
    IF ~Truthy(alt)
    THEN Response("200", "No alternate generated.", <<>>, 0, <<>>, <<>>, <<>>, TRUE)
    ELSE Response("200", "", intent, 0, alt, <<>>, <<>>, TRUE)

\* api_alternate after the coercion of the intent
AlternateCoerced(prompt, intent, answers, index) ==
    IF AlternateRaises(prompt, intent, answers, index) THEN ServerError
    ELSE AlternateResponse(intent, alternate_prompt(prompt, intent, answers, index))

\* api_alternate: the prompt is not validated
api_alternate(payload) ==
    AlternateCoerced(Strip(Or(payload.text, <<>>)),
                     _coerce_intent_to_allowed(Strip(Or(payload.text, <<>>)),
                                               Lower(Strip(Or(payload.intent, <<>>)))),
                     AnswersOrEmpty(payload.answers), payload.index)

\* ------------------------------------------------------------------------
\* The inputs

\* alternate indexes are drawn from -MaxIndex..MaxIndex
MaxIndex == 3

\* answer lists handed to _answers_to_map alone have at most MaxAnswers entries
MaxAnswers == 2

Texts ==
    {<<>>, <<" "," ">>, <<"l","o","g","o">>, <<"L","O","G","O"," ","d","e","s","i","g","n">>, <<"e","m","a","i","l"," ","m","e"," ","a"," ",
                                                "p","i","c","t","u","r","e">>,
     <<"p","i","c","t","u","r","e"," ","e","m","a","i","l">>, <<"S","t","a","r","t">>, <<"m","a","i","l"," ","t","h","e"," ","c","o","d","e">>, <<"c","o","d","e"," ","m","a","i","l">>,
     <<"f","i","x"," ","b","u","g">>, <<"t","r","a","n","s","l","a","t","e"," ","s","u","m","m","a","r","y">>, <<"s","u","m","m","a","r","y",","," ","t","r","a",
                                           "n","s","l","a","t","e">>,
     <<"p","o","l","i","s","h"," ","t","a","b","l","e">>, <<"p","l","o","t"," ","c","s","v">>, <<"r","e","p","h","r","a","s","e"," ","b","r","i","e",
                                       "f","l","y">>, <<"h","e","l","l","o">>,
     <<"a","s","k"," ","p","r","o","f","e","s","s","o","r">>, <<"c","#"," ","t","o","o","l">>}

Intents ==
    {IMAGE, EMAIL, CODE, GENERAL, TRANSLATE, <<>>, <<"I","m","a","g","e">>, <<" ","e","m","a","i","l"," ">>}

\* the answers of the spec's example, and a second set of values
SlotValuesA ==
    <<<<"d","o","g">>, <<"w","a","t","e","r","c","o","l","o","r">>, <<"b","e","a","c","h">>, <<"c","l","o","s","e"," ","u","p",","," ","1","6",
                                            ":","9">>, <<"s","u","n","s","e","t">>, <<"w","a","r","m">>>>

SlotValuesB ==
    <<<<"a","n"," ","O","w","l">>, <<"o","i","l">>, <<"a"," ","f","o","r","e","s","t">>, <<"w","i","d","e">>, <<"n","o","o","n">>, <<" "," ">>>>

SlotNames == <<Q1, Q2, Q3, Q4, Q5, Q6>>

\* the answers q_i = values[i] for the slots i of S, in order
SlotList(values, S) ==
    ListOf(SelectSeq([i \in 1..6 |-> Entry(SlotNames[i], values[i])],
                     LAMBDA e : \E i \in S : e.name = SlotNames[i]))

SlotAnswers ==
    {SlotList(SlotValuesA, S) : S \in SUBSET (1..6)}
    \cup {SlotList(SlotValuesB, S) : S \in {{1}, {2}, {1, 2, 3}, {1, 4, 6}, 1..6}}

SpecialAnswers ==
    {NoAnswers,
     ListOf(<<Entry(<<" ","Q","1"," ">>, <<" ","c","a","t"," ">>), Entry(Q1, <<"d","o","g">>)>>),
     ListOf(<<Entry(Q1, <<"d","o","g">>), Entry(Q1, <<" "," ">>), Entry(<<>>, <<"x">>)>>),
     ListOf(<<Entry(<<"t","o","p","i","c">>, <<"o","w","l","s">>), Entry(<<"S","i","z","e">>, <<"s","m","a","l","l">>)>>),
     ListOf(<<Entry(Q1, <<"d","o","g">>), BadEntry>>),
     DictOf(<<[k |-> Q1, v |-> <<"d","o","g">>], [k |-> Q3, v |-> <<"s","n","o","w">>]>>)}

EntryNames == {Q1, <<" ","Q","1"," ">>, Q2, <<" ">>}

EntryValues == {<<"d","o","g">>, <<" ","c","a","t"," ">>, <<>>}

Entries == {Entry(n, v) : n \in EntryNames, v \in EntryValues}

\* every list of at most MaxAnswers well-formed entries
EntryLists ==
    UNION {[1..n -> Entries] : n \in 0..MaxAnswers}

Prompts ==
    {<<>>, <<"s","o","r","t"," ","a"," ","l","i","s","t">>, compose_image_prompt(_answers_to_map(SlotList(SlotValuesA, 1..6))),
     <<"G","e","n","e","r","a","t","e"," ","a","n"," ","O","i","l"," ","i","m","a","g","e",
       " ","o","f"," ","a"," ","c","a","t"," ","i","n"," ","a"," ","b","o","x"," ","a","t",
       " ","n","o","o","n",","," ","A","R"," ","4",":","3",","," ","c","o","l","o","r"," ",
       "p","a","l","e","t","t","e",":"," ","r","e","d",".">>}

ApiTexts == {NONE, <<" "," ">>, <<" ","l","o","g","o"," ">>, <<"s","o","r","t"," ","a"," ","l","i","s","t">>}

ApiIntents == {NONE, <<>>, <<" ","I","m","a","g","e"," ">>, EMAIL, CODE, GENERAL}

ApiAnswers ==
    {NoAnswers, ListOf(<<>>), SlotList(SlotValuesA, 1..6),
     ListOf(<<Entry(Q1, <<"d","o","g">>), BadEntry>>),
     DictOf(<<[k |-> Q1, v |-> <<"d","o","g">>]>>)}

Indexes == (0 - MaxIndex)..MaxIndex

Requests ==
    {Request("classify_intent", t, <<>>, NoAnswers, 0) : t \in Texts}
    \cup {Request("_intent_for_text", t, <<>>, NoAnswers, 0) : t \in Texts}
    \cup {Request("_coerce_intent_to_allowed", t, i, NoAnswers, 0) :
             t \in Texts, i \in Intents}
    \cup {Request("_answers_to_map", <<>>, <<>>, ListOf(l), 0) : l \in EntryLists}
    \cup {Request("refine_with_answers", t, i, a, 0) :
             t \in {<<>>, <<"s","o","r","t"," ","a"," ","l","i","s","t">>},
             i \in {IMAGE, EMAIL, CODE, GENERAL, <<"E","m","a","i","l">>, NONE},
             a \in SlotAnswers \cup SpecialAnswers}
    \cup {Request("alternate_prompt", <<"s","o","r","t"," ","a"," ","l","i","s","t">>, i, a, n) :
             i \in {IMAGE, EMAIL, CODE, GENERAL},
             a \in SlotAnswers \cup SpecialAnswers, n \in Indexes}
    \cup {Request("alternate_prompt", p, i, a, n) :
             p \in Prompts, i \in {IMAGE, CODE, NONE},
             a \in {NoAnswers, ListOf(<<>>)}, n \in Indexes}
    \cup {Request("api_suggest", t, <<>>, NoAnswers, 0) : t \in Texts \cup {NONE}}
    \cup {Request("api_refine", t, i, a, 0) :
             t \in ApiTexts, i \in ApiIntents, a \in ApiAnswers}
    \cup {Request("api_alternate", t, i, a, n) :
             t \in ApiTexts, i \in ApiIntents, a \in ApiAnswers, n \in {0, 1}}

\* ------------------------------------------------------------------------
\* The state machine

TypeOK ==
    /\ pc \in {"idle", "pending", "done"}
    /\ classifier_ok \in BOOLEAN
    /\ model_loaded \in BOOLEAN
    /\ label_emb_set \in BOOLEAN

\* After start-up: the import of the classifier has succeeded or failed, and
\* the embedding model is not loaded.
Init ==
    /\ pc = "idle"
    /\ req = NoRequest
    /\ resp = NoResponse
    /\ classifier_ok \in BOOLEAN
    /\ model_loaded = FALSE
    /\ label_emb_set = FALSE

\* A request arrives, or a function is called.  classify_intent can be
\* called only where its module was imported.
Receive ==
    /\ pc = "idle"
    /\ \E r \in Requests :
          /\ r.op = "classify_intent" => classifier_ok
          /\ req' = r
    /\ pc' = "pending"
    /\ UNCHANGED <<resp, classifier_ok, model_loaded, label_emb_set>>

Finish(r, model, emb) ==
    /\ resp' = r
    /\ model_loaded' = model
    /\ label_emb_set' = emb
    /\ pc' = "done"
    /\ UNCHANGED <<req, classifier_ok>>

ResolveResponse(o) ==
    IF o.raised
    THEN Response("raised", "exception", <<>>, 0, <<>>, <<>>, <<>>, FALSE)
    ELSE Response("returned", "", o.intent, o.conf, <<>>, <<>>, <<>>, FALSE)

CallClassifyIntent ==
    /\ pc = "pending" /\ req.op = "classify_intent"
    /\ \E o \in classify_intent(req.text, model_loaded, label_emb_set) :
          Finish(ResolveResponse(o), o.model, o.emb)

CallIntentForText ==
    /\ pc = "pending" /\ req.op = "_intent_for_text"
    /\ \E o \in _intent_for_text(req.text, classifier_ok, model_loaded, label_emb_set) :
          Finish(ResolveResponse(o), o.model, o.emb)

CallCoerceIntent ==
    /\ pc = "pending" /\ req.op = "_coerce_intent_to_allowed"
    /\ Finish(Response("returned", "", _coerce_intent_to_allowed(req.text, req.intent),
                       0, <<>>, <<>>, <<>>, FALSE),
              model_loaded, label_emb_set)

CallAnswersToMap ==
    /\ pc = "pending" /\ req.op = "_answers_to_map"
    /\ Finish(IF AnswersRaise(req.answers)
              THEN Response("raised", "exception", <<>>, 0, <<>>, <<>>, <<>>, FALSE)
              ELSE Response("returned", "", <<>>, 0, <<>>, <<>>,
                            _answers_to_map(req.answers), FALSE),
              model_loaded, label_emb_set)

CallRefine ==
    /\ pc = "pending" /\ req.op = "refine_with_answers"
    /\ Finish(IF RefineRaises(req.text, req.intent, req.answers)
              THEN Response("raised", "exception", <<>>, 0, <<>>, <<>>, <<>>, TRUE)
              ELSE Response("returned", "", <<>>, 0,
                            refine_with_answers(req.text, req.intent, req.answers),
                            <<>>, <<>>, TRUE),
              model_loaded, label_emb_set)

CallAlternate ==
    /\ pc = "pending" /\ req.op = "alternate_prompt"
    /\ Finish(IF AlternateRaises(req.text, req.intent, req.answers, req.index)
              THEN Response("raised", "exception", <<>>, 0, <<>>, <<>>, <<>>, TRUE)
              ELSE Response("returned", "", <<>>, 0,
                            alternate_prompt(req.text, req.intent, req.answers, req.index),
                            <<>>, <<>>, TRUE),
              model_loaded, label_emb_set)

ApiSuggest ==
    /\ pc = "pending" /\ req.op = "api_suggest"
    /\ \E r \in api_suggest(req, classifier_ok, model_loaded, label_emb_set) :
          Finish(r[1], r[2], r[3])

ApiRefine ==
    /\ pc = "pending" /\ req.op = "api_refine"
    /\ Finish(api_refine(req), model_loaded, label_emb_set)

ApiAlternate ==
    /\ pc = "pending" /\ req.op = "api_alternate"
    /\ Finish(api_alternate(req), model_loaded, label_emb_set)

\* The response is delivered; the module globals stay as they are.
Respond ==
    /\ pc = "done"
    /\ pc' = "idle"
    /\ req' = NoRequest
    /\ resp' = NoResponse
    /\ UNCHANGED <<classifier_ok, model_loaded, label_emb_set>>

Next ==
    \/ Receive
    \/ CallClassifyIntent
    \/ CallIntentForText
    \/ CallCoerceIntent
    \/ CallAnswersToMap
    \/ CallRefine
    \/ CallAlternate
    \/ ApiSuggest
    \/ ApiRefine
    \/ ApiAlternate
    \/ Respond

Spec == Init /\ [][Next]_vars

\* ------------------------------------------------------------------------
\* The properties

\* the call or request "op" has been served
Done(op) == pc = "done" /\ req.op = op

\* the answers q1="dog", q2="watercolor", q3="beach", q4="close up, 16:9",
\* q5="sunset", q6="warm"
ExampleAnswers == SlotList(SlotValuesA, 1..6)

ExampleRefined ==
    Done("refine_with_answers") /\ req.text = <<>> /\ req.intent = IMAGE
    /\ req.answers = ExampleAnswers

\* C1 as the specification words it: the refined prompt of the example starts
\* with "... image of dog on beach at sunset, ..." (no comma after "beach")
\* and continues with the two fixed sentences.
C1_AsStated ==
    ExampleRefined =>
        resp.out =
            <<"C","r","e","a","t","e"," ","a"," ","w","a","t","e","r","c","o","l","o","r"," ",
              "i","m","a","g","e"," ","o","f"," ","d","o","g"," ","o","n"," ","b","e","a","c",
              "h"," ","a","t"," ","s","u","n","s","e","t",","," ","c","a","p","t","u","r","e",
              "d"," ","i","n"," ","a"," ","c","l","o","s","e","-","u","p"," ","v","i","e","w",
              ","," ","w","i","t","h"," ","a","n"," ","a","s","p","e","c","t"," ","r","a","t",
              "i","o"," ","o","f"," ","1","6",":","9",","," ","u","s","i","n","g"," ","a"," ",
              "w","a","r","m"," ","c","o","l","o","r"," ","p","a","l","e","t","t","e">>
            \o ImageTail

\* C1: refine_with_answers("", "image", answers) for the example answers
\* returns the lead clause followed by all five modifiers joined by ", " (so
\* a comma follows "beach"), then the two fixed sentences.
C1_ExampleRefined ==
    ExampleRefined =>
        /\ resp.status = "returned"
        /\ resp.out =
            <<"C","r","e","a","t","e"," ","a"," ","w","a","t","e","r","c","o","l","o","r"," ",
              "i","m","a","g","e"," ","o","f"," ","d","o","g"," ","o","n"," ","b","e","a","c",
              "h",","," ","a","t"," ","s","u","n","s","e","t",","," ","c","a","p","t","u","r",
              "e","d"," ","i","n"," ","a"," ","c","l","o","s","e","-","u","p"," ","v","i","e",
              "w",","," ","w","i","t","h"," ","a","n"," ","a","s","p","e","c","t"," ","r","a",
              "t","i","o"," ","o","f"," ","1","6",":","9",","," ","u","s","i","n","g"," ","a",
              " ","w","a","r","m"," ","c","o","l","o","r"," ","p","a","l","e","t","t","e",".",
              " ","T","h","e"," ","s","c","e","n","e"," ","s","h","o","u","l","d"," ","b","e",
              " ","s","h","a","r","p"," ","a","n","d"," ","d","e","t","a","i","l","e","d",".",
              " ","A","v","o","i","d",":"," ","b","l","u","r","r","y",","," ","l","o","w","-",
              "r","e","s",","," ","w","a","t","e","r","m","a","r","k","s",","," ","t","e","x",
              "t",","," ","l","o","g","o","s",","," ","d","i","s","t","o","r","t","i","o","n",
              ".">>

C1_Witness ==
    ExampleRefined
    /\ StartsAt(resp.out, <<"C","r","e","a","t","e"," ","a"," ","w","a","t","e","r","c","o",
                            "l","o","r"," ","i","m","a","g","e"," ","o","f"," ","d","o","g",
                            " ","o","n"," ","b","e","a","c","h",","," ","a","t"," ","s","u",
                            "n","s","e","t",",">>, 1)

\* C2: a call of classify_intent on a non-blank text whose lowercase form
\* contains an image keyword returns ("image", 0.95), whatever else the text
\* contains, and leaves the embedding model as it was (not loaded by the call).
C2_ImageKeyword ==
    [][(CallClassifyIntent
        /\ Strip(req.text) # <<>>
        /\ AnyIn(ImageKeywords, Lower(req.text)))
       => /\ resp'.status = "returned"
          /\ resp'.intent = IMAGE
          /\ resp'.conf = RuleConf
          /\ model_loaded' = model_loaded
          /\ label_emb_set' = label_emb_set]_vars

C2_Witness ==
    Done("classify_intent") /\ req.text = <<"L","O","G","O"," ","d","e","s","i","g","n">>
    /\ resp.intent = IMAGE /\ resp.conf = RuleConf /\ ~model_loaded

\* C3: for the intents image, email and code, alternate_prompt at index i
\* gives what it gives at i + 3 and at i mod 3, for negative i too; whether
\* it raises does not depend on the index either.
C3_PeriodThree ==
    Done("alternate_prompt") /\ Lower(Or(req.intent, GENERAL)) \in {IMAGE, EMAIL, CODE} =>
        IF AlternateRaises(req.text, req.intent, req.answers, req.index + 3)
        THEN resp.status = "raised"
        ELSE /\ resp.status = "returned"
             /\ resp.out = alternate_prompt(req.text, req.intent, req.answers,
                                            req.index + 3)
             /\ resp.out = alternate_prompt(req.text, req.intent, req.answers,
                                            req.index % 3)

C3_Witness ==
    Done("alternate_prompt") /\ req.intent = EMAIL /\ req.index = 0 - 1
    /\ req.answers = ExampleAnswers
    /\ StartsAt(resp.out, <<"C","o","m","p","o","s","e"," ","a"," ","w","e","l","l","-","s",
                            "t","r","u","c","t","u","r","e","d"," ","e","m","a","i","l"," ",
                            "t","o"," ","d","o","g">>, 1)

\* the answer map alternate_prompt works on: of a list, of a mapping, or empty
AnswerMapOf(answers) ==
    IF answers.kind = "list" /\ ~AnswersRaise(answers) THEN _answers_to_map(answers)
    ELSE IF answers.kind = "dict" THEN answers.map
    ELSE <<>>

\* the subject of an answer map, NONE when it has none
SubjectOf(kv) == IF Truthy(Get(kv, Q1)) THEN Strip(Get(kv, Q1)) ELSE NONE

\* C4: for an answer map with a subject q1, the image alternates at index 0
\* and at index 1 differ, and each contains the subject.
C4_SameSubject ==
    (/\ Done("alternate_prompt")
     /\ Lower(Or(req.intent, GENERAL)) = IMAGE
     /\ req.index \in {0, 1}
     /\ SubjectOf(AnswerMapOf(req.answers)) \notin {NONE, <<>>}) =>
        /\ resp.status = "returned"
        /\ resp.out # alternate_prompt(req.text, req.intent, req.answers, 1 - req.index)
        /\ Contains(SubjectOf(AnswerMapOf(req.answers)), resp.out)

C4_Witness ==
    Done("alternate_prompt") /\ req.intent = IMAGE /\ req.index = 1
    /\ req.answers = SlotList(SlotValuesA, {1})
    /\ resp.out =
        <<"C","r","e","a","t","e"," ","a"," ","s","c","e","n","e"," ","f","e","a","t","u","r",
          "i","n","g"," ","d","o","g","."," ","A","i","m"," ","f","o","r"," ","h","i","g","h",
          " ","f","i","d","e","l","i","t","y"," ","a","n","d"," ","s","h","a","r","p"," ","f",
          "o","c","u","s",";"," ","e","x","c","l","u","d","e"," ","l","o","g","o","s"," ","a",
          "n","d"," ","t","e","x","t",".">>

EmailNoAnswers ==
    Done("refine_with_answers") /\ Lower(Or(req.intent, <<>>)) = EMAIL
    /\ req.answers \in {ListOf(<<>>), NoAnswers}

\* C5: refining for email with the empty answer list, for every text, gives
\* a string that contains "Aim for 120-150 words." (with an en dash), has no
\* "to <recipient>" clause, and is the string that no answers at all (None)
\* give.
C5_EmptyAnswers ==
    EmailNoAnswers =>
        /\ resp.status = "returned"
        /\ Contains(<<"A","i","m"," ","f","o","r"," ","1","2","0","ndash","1","5","0"," ","w",
                      "o","r","d","s",".">>, resp.out)
        /\ ~Contains(<<" ","t","o"," ">>, resp.out)
        /\ resp.out = refine_with_answers(req.text, req.intent,
                                          IF req.answers = NoAnswers THEN ListOf(<<>>)
                                          ELSE NoAnswers)

C5_Witness ==
    EmailNoAnswers /\ req.text = <<>> /\ req.answers = ListOf(<<>>)
    /\ resp.out = <<"W","r","i","t","e"," ","a"," ","c","o","n","c","i","s","e",","," ","p",
                    "r","o","f","e","s","s","i","o","n","a","l"," ","e","m","a","i","l",".",
                    " ","A","i","m"," ","f","o","r"," ","1","2","0","ndash","1","5","0"," ",
                    "w","o","r","d","s",".">>

\* C6: the coercion returns an intent of {image, email, code} unchanged; any
\* other intent becomes the first of image, email, code one of whose cue
\* words occurs in the lowercased text, and email when none does; the result
\* is one of image, email, code, general and a function of (text, intent).
C6_Coercion ==
    Done("_coerce_intent_to_allowed") =>
        /\ resp.status = "returned"
        /\ resp.intent \in {IMAGE, EMAIL, CODE, GENERAL}
        /\ req.intent \in {IMAGE, EMAIL, CODE} => resp.intent = req.intent
        /\ req.intent \notin {IMAGE, EMAIL, CODE} =>
            /\ AnyIn(CoerceImageWords, Lower(req.text)) => resp.intent = IMAGE
            /\ (~AnyIn(CoerceImageWords, Lower(req.text))
                /\ AnyIn(CoerceEmailWords, Lower(req.text))) => resp.intent = EMAIL
            /\ (~AnyIn(CoerceImageWords, Lower(req.text))
                /\ ~AnyIn(CoerceEmailWords, Lower(req.text))
                /\ AnyIn(CoerceCodeWords, Lower(req.text))) => resp.intent = CODE
            /\ (~AnyIn(CoerceImageWords, Lower(req.text))
                /\ ~AnyIn(CoerceEmailWords, Lower(req.text))
                /\ ~AnyIn(CoerceCodeWords, Lower(req.text))) => resp.intent = EMAIL

C6_Witness ==
    Done("_coerce_intent_to_allowed") /\ req.text = <<"h","e","l","l","o">>
    /\ req.intent = TRANSLATE /\ resp.intent = EMAIL

\* the key and the value entry n of a list contributes, and whether it does
EntryKey(items, n) == Lower(Strip(items[n].name))

EntryVal(items, n) == Strip(items[n].value)

EntryKept(items, n) == EntryKey(items, n) # <<>> /\ EntryVal(items, n) # <<>>

\* C7: on a list of (name, value) entries _answers_to_map returns; its keys
\* are unique; each of its pairs is the trimmed lowercased name and the
\* trimmed value of the last entry with that key among the entries whose
\* trimmed name and value are both non-empty; and every such entry has its
\* key in the result.
C7_AnswerMap ==
    Done("_answers_to_map") =>
        /\ resp.status = "returned"
        /\ \A a, b \in 1..Len(resp.kv) : resp.kv[a].k = resp.kv[b].k => a = b
        /\ \A a \in 1..Len(resp.kv) :
              \E n \in 1..Len(req.answers.items) :
                  /\ EntryKept(req.answers.items, n)
                  /\ EntryKey(req.answers.items, n) = resp.kv[a].k
                  /\ EntryVal(req.answers.items, n) = resp.kv[a].v
                  /\ \A m \in (n + 1)..Len(req.answers.items) :
                        EntryKept(req.answers.items, m) =>
                            EntryKey(req.answers.items, m) # resp.kv[a].k
        /\ \A n \in 1..Len(req.answers.items) :
              EntryKept(req.answers.items, n) =>
                  HasKey(resp.kv, EntryKey(req.answers.items, n))

C7_Witness ==
    Done("_answers_to_map")
    /\ req.answers = ListOf(<<Entry(Q1, <<"d","o","g">>), Entry(<<" ","Q","1"," ">>, <<" ","c","a","t"," ">>)>>)
    /\ resp.kv = <<[k |-> Q1, v |-> <<"c","a","t">>]>>

\* C8: _intent_for_text never raises: it returns an intent of image, email,
\* code, general with a confidence.  Without the classifier module it
\* returns the lexical heuristic with confidence 0.5; with it, a text the
\* keyword rules match gets confidence 0.95, and a non-blank text they do
\* not match gets the lexical heuristic with 0.5 whenever the embedding
\* model could not be loaded.
C8_NeverRaises ==
    Done("_intent_for_text") =>
        /\ resp.status = "returned"
        /\ resp.intent \in {IMAGE, EMAIL, CODE, GENERAL}
        /\ resp.conf \in SimValues \cup {RuleConf, FallbackConf}
        /\ ~classifier_ok =>
              resp.intent = _heuristic_intent(req.text) /\ resp.conf = FallbackConf
        /\ (classifier_ok /\ Strip(req.text) # <<>>) =>
              IF \E n \in 1..Len(_KEYWORD_RULES) :
                     AnyIn(_KEYWORD_RULES[n].kws, Lower(req.text))
              THEN resp.conf = RuleConf
              ELSE ~label_emb_set =>
                       /\ resp.intent = _heuristic_intent(req.text)
                       /\ resp.conf = FallbackConf

C8_Witness ==
    Done("_intent_for_text") /\ classifier_ok /\ req.text = <<"a","s","k"," ","p","r","o","f","e","s",
                                                              "s","o","r">>
    /\ model_loaded /\ ~label_emb_set
    /\ resp.intent = EMAIL /\ resp.conf = FallbackConf

\* the earliest intent, in the order image, email, code, translate,
\* summarize, rewrite, data, one of whose keywords occurs in t
EarliestMatch(t) ==
    IF AnyIn(ImageKeywords, t) THEN IMAGE
    ELSE IF AnyIn(EmailKeywords, t) THEN EMAIL
    ELSE IF AnyIn(CodeKeywords, t) THEN CODE
    ELSE IF AnyIn(TranslateKeywords, t) THEN TRANSLATE
    ELSE IF AnyIn(SummarizeKeywords, t) THEN SUMMARIZE
    ELSE IF AnyIn(RewriteKeywords, t) THEN REWRITE
    ELSE IF AnyIn(DataKeywords, t) THEN DATA
    ELSE NONE

\* C9: when the lowercased text contains keywords of one or several intents,
\* classify_intent returns (label, 0.95) for the earliest matching intent in
\* the order image, email, code, translate, summarize, rewrite, data,
\* wherever the keywords stand in the text.
C9_FirstMatchWins ==
    (/\ Done("classify_intent")
     /\ Strip(req.text) # <<>>
     /\ EarliestMatch(Lower(req.text)) # NONE) =>
        /\ resp.status = "returned"
        /\ resp.intent = EarliestMatch(Lower(req.text))
        /\ resp.conf = RuleConf

C9_Witness ==
    Done("classify_intent") /\ req.text = <<"e","m","a","i","l"," ","m","e"," ","a"," ","p",
                                            "i","c","t","u","r","e">>
    /\ resp.intent = IMAGE /\ resp.conf = RuleConf

\* a payload field that is missing, empty or blank
Blank(x) == ~Truthy(x) \/ Strip(x) = <<>>

\* C10 as the specification words it: on the suggest, refine and alternate
\* endpoints a request whose text, or whose intent (refine, alternate), is
\* empty or missing is answered with an error and nothing is composed.
C10_AsStated ==
    (/\ pc = "done"
     /\ req.op \in {"api_suggest", "api_refine", "api_alternate"}
     /\ \/ Blank(req.text)
        \/ req.op # "api_suggest" /\ Blank(req.intent)) =>
        resp.error # "" /\ ~resp.composed

\* C10: the suggest and refine endpoints answer a request whose text is
\* missing, empty or blank with 400 "Missing 'text'" and compose nothing;
\* with a text they compose, and answer 200 or 500.  A missing or empty
\* intent is no error: refine and alternate coerce it to image, email or
\* code.  The alternate endpoint validates nothing: it composes for a
\* missing or empty prompt too.
C10_Validation ==
    /\ (pc = "done" /\ req.op \in {"api_suggest", "api_refine"} /\ Blank(req.text)) =>
          resp = MissingText
    /\ (pc = "done" /\ req.op \in {"api_suggest", "api_refine"} /\ ~Blank(req.text)) =>
          resp.status \in {"200", "500"} /\ resp.composed
    /\ Done("api_alternate") =>
          resp.status \in {"200", "500"} /\ resp.composed
    /\ (pc = "done" /\ req.op \in {"api_refine", "api_alternate"}
        /\ resp.status = "200") =>
          resp.intent \in ALLOWED_INTENTS /\ Truthy(resp.out) /\ resp.error = ""

C10_Witness ==
    Done("api_refine") /\ req.text = <<" "," ">> /\ req.intent = EMAIL
    /\ req.answers = ExampleAnswers
    /\ resp.status = "400" /\ resp.error = "Missing 'text'" /\ ~resp.composed

\* C11: the confidence of every result of classify_intent and of
\* _intent_for_text, and the confidence field of every successful response
\* of /api/suggest, lies in [0, 1] (0..1000 thousandths).
C11_AsStated ==
    (/\ pc = "done"
     /\ req.op \in {"classify_intent", "_intent_for_text", "api_suggest"}
     /\ resp.status \in {"returned", "200"}) =>
        resp.conf >= 0 /\ resp.conf <= 1000

\* ------------------------------------------------------------------------
\* Concurrent requests.  The server handles requests on several threads, and
\* the module globals _model and _label_emb are shared by them.  Here pc,
\* req and resp hold one value per thread, and a call of classify_intent
\* (alone, or inside _intent_for_text) is taken statement by statement:
\*   "called"     the call has started
\*   "load"       _load_model is about to test "_model is None"
\*   "construct"  the test saw None: SentenceTransformer(...) is running
\*   "labels"     _model is assigned: _model.encode(LABELS) is running
\*   "similarity" _load_model has returned: the text is about to be encoded
\*                and compared with _label_emb
\* The classifier module is imported and the model can be loaded: neither
\* the constructor nor the encoding of the labels raises.

\* the number of threads that serve requests
NumThreads == 2

Threads == 1..NumThreads

ThreadTexts == {<<"h","e","l","l","o">>, <<"a","s","k"," ","p","r","o","f","e","s","s","o","r">>, <<"l","o","g","o">>, <<>>}

ThreadOps == {"classify_intent", "_intent_for_text"}

InitThreads ==
    /\ pc = [t \in Threads |-> "idle"]
    /\ req = [t \in Threads |-> NoRequest]
    /\ resp = [t \in Threads |-> NoResponse]
    /\ classifier_ok = TRUE
    /\ model_loaded = FALSE
    /\ label_emb_set = FALSE

\* the results of the call "op" on a text, from the statement that follows
\* _load_model on, with the globals as they are then
ResultsOf(op, text, model, emb) ==
    {ResolveResponse(o) :
        o \in IF op = "classify_intent" THEN classify_intent(text, model, emb)
              ELSE _intent_for_text(text, TRUE, model, emb)}

\* classify_intent returns before _load_model: a blank text, or a rule match
ReturnsEarly(text) ==
    ~Truthy(text) \/ Strip(text) = <<>> \/ _rule_based(text) # NONE

ThreadCall(t) ==
    /\ pc[t] = "idle"
    /\ \E op \in ThreadOps, text \in ThreadTexts :
          req' = [req EXCEPT ![t] = Request(op, text, <<>>, NoAnswers, 0)]
    /\ pc' = [pc EXCEPT ![t] = "called"]
    /\ UNCHANGED <<resp, classifier_ok, model_loaded, label_emb_set>>

\* the blank-text test and the rule pass
ThreadRules(t) ==
    /\ pc[t] = "called"
    /\ IF ReturnsEarly(req[t].text)
       THEN /\ \E r \in ResultsOf(req[t].op, req[t].text, model_loaded, label_emb_set) :
                  resp' = [resp EXCEPT ![t] = r]
            /\ pc' = [pc EXCEPT ![t] = "done"]
       ELSE /\ pc' = [pc EXCEPT ![t] = "load"]
            /\ UNCHANGED resp
    /\ UNCHANGED <<req, classifier_ok, model_loaded, label_emb_set>>

\* if _model is None:
ThreadTestModel(t) ==
    /\ pc[t] = "load"
    /\ pc' = [pc EXCEPT ![t] = IF model_loaded THEN "similarity" ELSE "construct"]
    /\ UNCHANGED <<req, resp, classifier_ok, model_loaded, label_emb_set>>

\* _model = SentenceTransformer(_MODEL_NAME)
ThreadConstruct(t) ==
    /\ pc[t] = "construct"
    /\ model_loaded' = TRUE
    /\ pc' = [pc EXCEPT ![t] = "labels"]
    /\ UNCHANGED <<req, resp, classifier_ok, label_emb_set>>

\* _label_emb = _model.encode(LABELS, normalize_embeddings=True)
ThreadEncodeLabels(t) ==
    /\ pc[t] = "labels"
    /\ label_emb_set' = TRUE
    /\ pc' = [pc EXCEPT ![t] = "similarity"]
    /\ UNCHANGED <<req, resp, classifier_ok, model_loaded>>

\* the encoding of the text and util.cos_sim(v, _label_emb), which raises
\* on a _label_emb that is None; _intent_for_text catches that
ThreadSimilarity(t) ==
    /\ pc[t] = "similarity"
    /\ \E r \in ResultsOf(req[t].op, req[t].text, TRUE, label_emb_set) :
          resp' = [resp EXCEPT ![t] = r]
    /\ pc' = [pc EXCEPT ![t] = "done"]
    /\ UNCHANGED <<req, classifier_ok, model_loaded, label_emb_set>>

ThreadReturn(t) ==
    /\ pc[t] = "done"
    /\ pc' = [pc EXCEPT ![t] = "idle"]
    /\ req' = [req EXCEPT ![t] = NoRequest]
    /\ resp' = [resp EXCEPT ![t] = NoResponse]
    /\ UNCHANGED <<classifier_ok, model_loaded, label_emb_set>>

NextThreads ==
    \E t \in Threads :
        \/ ThreadCall(t)
        \/ ThreadRules(t)
        \/ ThreadTestModel(t)
        \/ ThreadConstruct(t)
        \/ ThreadEncodeLabels(t)
        \/ ThreadSimilarity(t)
        \/ ThreadReturn(t)

SpecThreads == InitThreads /\ [][NextThreads]_vars

\* the results of the same call run alone, with the model loaded
RunAlone(op, text) == ResultsOf(op, text, TRUE, TRUE)

\* C12: under any interleaving each call returns a result the same call run
\* alone can return, and no call gets past _load_model while the model is
\* assigned and the label embeddings are not.
C12_AsStated ==
    \A t \in Threads :
        /\ pc[t] = "similarity" => label_emb_set
        /\ pc[t] = "done" => resp[t] \in RunAlone(req[t].op, req[t].text)

\* the text /api/suggest works on
Submitted == Strip(Or(req.text, <<>>))

\* C13: for every non-blank text, whatever the classifier does, a successful
\* response of /api/suggest carries an intent of image, email, code: when
\* the first pass gives another intent, every result of suggest on
\* "<coerced>: <text>" has the coerced intent.
C13_IntentCoerced ==
    /\ (Done("api_suggest") /\ resp.status = "200") =>
          resp.intent \in {IMAGE, EMAIL, CODE}
    /\ (pc = "pending" /\ req.op = "api_suggest" /\ Submitted # <<>>) =>
          \A d \in suggest(Submitted, classifier_ok, model_loaded, label_emb_set) :
              /\ ~d.raised
              /\ \/ d.intent \in {IMAGE, EMAIL, CODE}
                 \/ \A h \in suggest(_coerce_intent_to_allowed(Submitted, d.intent)
                                         \o <<":"," ">> \o Submitted,
                                     classifier_ok, d.model, d.emb) :
                        /\ ~h.raised
                        /\ h.intent = _coerce_intent_to_allowed(Submitted, d.intent)

C13_Witness ==
    Done("api_suggest") /\ req.text = <<"t","r","a","n","s","l","a","t","e"," ","s","u","m",
                                        "m","a","r","y">> /\ classifier_ok
    /\ resp.status = "200" /\ resp.intent = EMAIL /\ resp.conf = RuleConf

\* the five optional modifiers of the image sentence, in their fixed order:
\* background, lighting, composition phrase, aspect ratio, colour palette;
\* <<>> for a modifier whose slot is empty
Modifier(kv, n) ==
    IF n = 1
    THEN If(Slot(kv, Q3) # <<>>,
            (IF AnyIn(OnWords, Lower(Slot(kv, Q3))) THEN <<"o","n"," ">> ELSE <<"i","n"," ">>)
            \o Slot(kv, Q3))
    ELSE IF n = 2 THEN If(Slot(kv, Q5) # <<>>, <<"a","t"," ">> \o Slot(kv, Q5))
    ELSE IF n = 3 THEN Or(_comp_phrase(_normalize_comp(Slot(kv, Q4))[1]), <<>>)
    ELSE IF n = 4
    THEN If(_normalize_comp(Slot(kv, Q4))[2] # NONE,
            <<"w","i","t","h"," ","a","n"," ","a","s","p","e","c","t"," ","r","a","t","i","o",
              " ","o","f"," ">> \o Str(_normalize_comp(Slot(kv, Q4))[2]))
    ELSE If(Slot(kv, Q6) # <<>>, <<"u","s","i","n","g"," ","a"," ">> \o Slot(kv, Q6) \o <<" ","c","o","l","o","r"," ","p","a","l",
                                                                   "e","t","t","e">>)

\* modifier n with its separator: a space after the lead clause, ", " after
\* another modifier
ModifierPiece(kv, n) ==
    If(Modifier(kv, n) # <<>>,
       (IF \E j \in 1..(n - 1) : Modifier(kv, j) # <<>> THEN <<","," ">> ELSE <<" ">>)
       \o Modifier(kv, n))

\* the lead clause: "an" exactly when the style starts with a vowel
LeadClause(kv) ==
    IF Slot(kv, Q2) = <<>> THEN <<"C","r","e","a","t","e"," ","a","n"," ","i","m","a","g","e",
                                  " ","o","f"," ">> \o Or(Get(kv, Q1), <<"s","u","b","j","e","c","t">>)
    ELSE <<"C","r","e","a","t","e"," ">>
         \o (IF LowerChar(Slot(kv, Q2)[1]) \in Vowels THEN <<"a","n"," ">> ELSE <<"a"," ">>)
         \o Slot(kv, Q2) \o <<" ","i","m","a","g","e"," ","o","f"," ">> \o Or(Get(kv, Q1), <<"s","u","b","j","e","c","t">>)

ImageRefined ==
    Done("refine_with_answers") /\ req.intent = IMAGE /\ req.answers \in SlotAnswers

\* C14: the refined image prompt is the lead clause, then each modifier whose
\* slot is non-empty, in the order background, lighting, composition, aspect
\* ratio, palette, the first after a space and the others after ", ", then the
\* two fixed sentences.
C14_AssemblyOrder ==
    ImageRefined =>
        /\ resp.status = "returned"
        /\ resp.out = LeadClause(_answers_to_map(req.answers))
                      \o ModifierPiece(_answers_to_map(req.answers), 1)
                      \o ModifierPiece(_answers_to_map(req.answers), 2)
                      \o ModifierPiece(_answers_to_map(req.answers), 3)
                      \o ModifierPiece(_answers_to_map(req.answers), 4)
                      \o ModifierPiece(_answers_to_map(req.answers), 5)
                      \o ImageTail

C14_Witness ==
    ImageRefined /\ req.answers = SlotList(SlotValuesB, 1..6)
    /\ resp.out =
        <<"C","r","e","a","t","e"," ","a","n"," ","o","i","l"," ","i","m","a","g","e"," ","o",
          "f"," ","a","n"," ","O","w","l"," ","i","n"," ","a"," ","f","o","r","e","s","t",",",
          " ","a","t"," ","n","o","o","n",","," ","f","r","a","m","e","d"," ","w","i","d","e",
          "."," ","T","h","e"," ","s","c","e","n","e"," ","s","h","o","u","l","d"," ","b","e",
          " ","s","h","a","r","p"," ","a","n","d"," ","d","e","t","a","i","l","e","d","."," ",
          "A","v","o","i","d",":"," ","b","l","u","r","r","y",","," ","l","o","w","-","r","e",
          "s",","," ","w","a","t","e","r","m","a","r","k","s",","," ","t","e","x","t",","," ",
          "l","o","g","o","s",","," ","d","i","s","t","o","r","t","i","o","n",".">>

\* answers that are absent or a list of objects
WellFormed(answers) ==
    /\ answers.kind \in {"none", "list"}
    /\ answers.kind = "list" =>
           \A n \in 1..Len(answers.items) : answers.items[n].isdict

\* " <before><slot q><after>" when the map has a value for q, else nothing
Clause(kv, q, before, after) ==
    If(HasKey(kv, q) /\ Get(kv, q) # <<>>, before \o Str(Get(kv, q)) \o after)

\* the slot q of the map, or the default when the slot is missing or empty
SlotOr(kv, q, default) ==
    IF HasKey(kv, q) /\ Get(kv, q) # <<>> THEN Get(kv, q) ELSE default

EndsWith(s, suffix) ==
    Len(s) >= Len(suffix) /\ StartsAt(s, suffix, Len(s) - Len(suffix) + 1)

Refined == Done("refine_with_answers") /\ WellFormed(req.answers)

\* C15: for every text, every intent and every well-formed answer list,
\* refine_with_answers returns. For email it returns the base clause, " to
\* q1" and " that q2" when present, a period, the tone and constraints
\* sentences when present, and the word-count sentence. For code it starts
\* with "Write <q1 or 'your preferred language'> code to <q2, or the text, or
\* 'the specified task'>." and ends with the fixed instruction.
C15_RefineTotal ==
    Refined =>
        /\ resp.status = "returned"
        /\ Lower(Or(req.intent, <<>>)) = EMAIL =>
              resp.out =
                  <<"W","r","i","t","e"," ","a"," ","c","o","n","c","i","s","e",","," ","p",
                    "r","o","f","e","s","s","i","o","n","a","l"," ","e","m","a","i","l">>
                  \o Clause(_answers_to_map(req.answers), Q1, <<" ","t","o"," ">>, <<>>)
                  \o Clause(_answers_to_map(req.answers), Q2, <<" ","t","h","a","t"," ">>, <<>>)
                  \o <<".">>
                  \o Clause(_answers_to_map(req.answers), Q3, <<" ","K","e","e","p"," ","t","h","e"," ",
                                                                "t","o","n","e"," ">>, <<".">>)
                  \o Clause(_answers_to_map(req.answers), Q4,
                            <<" ","F","o","l","l","o","w"," ","t","h","e","s","e"," ","c","o",
                              "n","s","t","r","a","i","n","t","s",":"," ">>, <<".">>)
                  \o <<" ","A","i","m"," ","f","o","r"," ","1","2","0","ndash","1","5","0",
                       " ","w","o","r","d","s",".">>
        /\ Lower(Or(req.intent, <<>>)) = CODE =>
              /\ StartsAt(resp.out,
                     <<"W","r","i","t","e"," ">>
                     \o SlotOr(_answers_to_map(req.answers), Q1,
                               <<"y","o","u","r"," ","p","r","e","f","e","r","r","e","d"," ",
                                 "l","a","n","g","u","a","g","e">>)
                     \o <<" ","c","o","d","e"," ","t","o"," ">>
                     \o SlotOr(_answers_to_map(req.answers), Q2,
                               IF req.text \notin {NONE, <<>>} THEN req.text
                               ELSE <<"t","h","e"," ","s","p","e","c","i","f","i","e","d"," ",
                                      "t","a","s","k">>)
                     \o <<".">>, 1)
              /\ EndsWith(resp.out,
                          <<" ","R","e","t","u","r","n"," ","o","n","l","y"," ","t","h","e",
                            " ","c","o","d","e"," ","w","i","t","h"," ","c","l","e","a","r",
                            ","," ","m","i","n","i","m","a","l"," ","c","o","m","m","e","n",
                            "t","s",".">>)

C15_Witness ==
    Refined /\ req.intent = CODE /\ req.text = <<>> /\ req.answers = ListOf(<<>>)
    /\ resp.out =
        <<"W","r","i","t","e"," ","y","o","u","r"," ","p","r","e","f","e","r","r","e","d"," ",
          "l","a","n","g","u","a","g","e"," ","c","o","d","e"," ","t","o"," ","t","h","e"," ",
          "s","p","e","c","i","f","i","e","d"," ","t","a","s","k","."," ","R","e","t","u","r",
          "n"," ","o","n","l","y"," ","t","h","e"," ","c","o","d","e"," ","w","i","t","h"," ",
          "c","l","e","a","r",","," ","m","i","n","i","m","a","l"," ","c","o","m","m","e","n",
          "t","s",".">>

\* C16 as the specification words it: every successful response of
\* /api/suggest carries the first-pass template of the returned intent filled
\* with the submitted, trimmed text, and slots.inputs is that text.
C16_AsStated ==
    (Done("api_suggest") /\ resp.status = "200") =>
        /\ resp.out = _improved_prompt(resp.intent, Submitted)
        /\ resp.inputs = Submitted

\* a call of alternate_prompt on the refined prompt of the example answers,
\* for image, without answers
RoundTrip ==
    Done("alternate_prompt") /\ req.intent = IMAGE
    /\ req.answers \in {NoAnswers, ListOf(<<>>)}
    /\ req.text = compose_image_prompt(_answers_to_map(ExampleAnswers))

\* C17 as the specification words it: on the refined prompt of the example
\* answers, alternate_prompt without answers returns, and every slot it
\* recovers from the prompt has the value of the original answer.
C17_AsStated ==
    RoundTrip =>
        /\ resp.status = "returned"
        /\ \A n \in 1..6 :
               HasKey(_extract_kv_from_prompt(req.text), SlotNames[n]) =>
                   Get(_extract_kv_from_prompt(req.text), SlotNames[n])
                       = Get(_answers_to_map(ExampleAnswers), SlotNames[n])

====
